---------------------------- MODULE Spec2Model ----------------------------
(***************************************************************************)
(* A model of the stock technical-analysis repository:                     *)
(*   - PortfolioTracker   (src/stock_ai_analyst/portfolio.py)              *)
(*   - SignalGenerator    (src/stock_ai_analyst/signals.py)                *)
(*   - TechnicalIndicators (src/stock_ai_analyst/technical_indicators.py)  *)
(*   - IndicatorsService, MomentumIndicatorsService and                    *)
(*     VolumeIndicatorsService (src/services/)                             *)
(*                                                                         *)
(* Numbers.  Python floats are modelled as exact rationals <<num, den>>    *)
(* in lowest terms with den > 0; share quantities and quoted prices are    *)
(* integers.  Floating-point rounding is therefore not modelled.           *)
(***************************************************************************)
EXTENDS Integers, Sequences, FiniteSets, TLC

VARIABLES
    positions,      \* PortfolioTracker.positions   (insertion-ordered dict)
    transactions,   \* PortfolioTracker.transactions (list)
    ret,            \* what the last PortfolioTracker call returned or raised
    data,           \* SignalGenerator.data    (the indicator frame)
    signals,        \* SignalGenerator.signals (list)
    rec,            \* what the last SignalGenerator call returned
    frame,          \* TechnicalIndicators.data (the frame being enriched)
    calc,           \* what the last indicator calculation returned
    stock_cache,    \* StockService.cache       (dict: cache_key -> frame)
    indian_cache,   \* IndianStockService.cache (dict: cache_key -> frame)
    fetched,        \* the last historical-data call and what it returned
    served          \* per service, the non-empty frame first returned for
                    \* each (symbol, days) asked so far

\* the state of a PortfolioTracker, of a SignalGenerator, of the
\* indicator calculators and of the two market-data services
pvars == <<positions, transactions, ret>>
svars == <<data, signals, rec>>
ivars == <<frame, calc>>
cvars == <<stock_cache, indian_cache, fetched, served>>
vars == <<positions, transactions, ret, data, signals, rec, frame, calc,
          stock_cache, indian_cache, fetched, served>>

---------------------------------------------------------------------------
(* Bounds of the model *)

\* at most this many transactions are logged in a run
MaxTx == 3

\* at most this many bars (rows) in an indicator frame
MaxBars == 4

\* at most this many bars in the lists handed to an indicator calculator
MaxPrices == 3

\* at most this many bars in a frame that holds one rule's columns
MaxRuleBars == 3

---------------------------------------------------------------------------
(* Exact arithmetic standing for Python's float arithmetic *)

Abs(x) == IF x < 0 THEN -x ELSE x

RECURSIVE GCD(_, _)
GCD(a, b) == IF b = 0 THEN a ELSE GCD(b, a % b)

\* the rational n/d (d # 0) in lowest terms with a positive denominator
Rat(n, d) ==
    LET g == GCD(Abs(n), Abs(d))
        s == IF d < 0 THEN -1 ELSE 1
    IN  <<(s * n) \div g, (s * d) \div g>>

RInt(n) == <<n, 1>>
RAdd(a, b) == Rat(a[1] * b[2] + b[1] * a[2], a[2] * b[2])
RSub(a, b) == Rat(a[1] * b[2] - b[1] * a[2], a[2] * b[2])
RMul(a, b) == Rat(a[1] * b[1], a[2] * b[2])
\* a / b, b # 0
RDiv(a, b) == Rat(a[1] * b[2], a[2] * b[1])
RLess(a, b) == a[1] * b[2] < b[1] * a[2]
RLeq(a, b) == a[1] * b[2] <= b[1] * a[2]
RAbs(a) == <<Abs(a[1]), a[2]>>
RZero == RInt(0)

---------------------------------------------------------------------------
(* PortfolioTracker: inputs *)

\* symbols as callers pass them; add_position/remove_position upper-case them
InputSymbols == {"aapl", "MSFT"}

\* str.upper() on the symbols above
Upper(s) == IF s = "aapl" THEN "AAPL" ELSE IF s = "tcs" THEN "TCS" ELSE s

Symbols == {Upper(s) : s \in InputSymbols}

\* share quantities passed to add_position / remove_position
Quantities == {5, 10}
\* purchase prices and sale prices
PurchasePrices == {150, 170}
SalePrices == {120, 200}

\* the quoted current price of each symbol
Quote(sym) == IF sym = "AAPL" THEN 175 ELSE 140

\* the current_prices dictionaries passed to get_portfolio_summary: the
\* quotes of any subset of the symbols
PriceMaps == {[sym \in K |-> Quote(sym)] : K \in SUBSET Symbols}

---------------------------------------------------------------------------
(* PortfolioTracker: state helpers *)

\* `symbol in ps`, ps a dictionary of positions
HeldIn(ps, sym) == \E i \in DOMAIN ps : ps[i].symbol = sym

\* ps[symbol]
PositionIn(ps, sym) == ps[CHOOSE i \in DOMAIN ps : ps[i].symbol = sym]

\* `symbol in self.positions`
Held(sym) == HeldIn(positions, sym)

HeldSymbols == {positions[i].symbol : i \in DOMAIN positions}

\* index of the entry of a held symbol
IndexOf(sym) == CHOOSE i \in DOMAIN positions : positions[i].symbol = sym

\* self.positions[symbol]
Position(sym) == positions[IndexOf(sym)]

\* del self.positions[symbol]: the other entries keep their order
DelPosition(sym) ==
    LET k == IndexOf(sym)
    IN  [i \in 1..(Len(positions) - 1) |->
            IF i < k THEN positions[i] ELSE positions[i + 1]]

\* datetime.now().isoformat(): a logical clock that ticks with the log
Now == Len(transactions) + 1

None == [none |-> TRUE]

Returned(op, args, value) ==
    [op |-> op, args |-> args, raised |-> "none", value |-> value]

Raised(op, args, err) ==
    [op |-> op, args |-> args, raised |-> err, value |-> None]

---------------------------------------------------------------------------
(* PortfolioTracker.add_position *)

\* the BUY transaction record
BuyTransaction(sym, quantity, purchase_price, date) ==
    [type |-> "BUY", symbol |-> sym, quantity |-> quantity,
     price |-> purchase_price, date |-> date,
     total |-> quantity * purchase_price]

\* the plain mean of the old average and the new price
NewAvgPrice_PlainMean(current_qty, current_avg_price, quantity, purchase_price) ==
    RDiv(RAdd(current_avg_price, RInt(purchase_price)), RInt(2))

\* the weighted average price of a position after a further purchase
\* (new_qty = current_qty + quantity # 0)
NewAvgPrice(current_qty, current_avg_price, quantity, purchase_price) ==
    RDiv(RAdd(RMul(RInt(current_qty), current_avg_price),
              RInt(quantity * purchase_price)),
         RInt(current_qty + quantity))

\* a purchase of a symbol already held that changes its average price only
UpdatedPositions_KeepsQuantity(sym, new_qty, new_avg_price) ==
    [positions EXCEPT ![IndexOf(sym)].avg_price = new_avg_price]

\* the position list after a purchase of a symbol already held
UpdatedPositions(sym, new_qty, new_avg_price) ==
    [positions EXCEPT ![IndexOf(sym)].quantity = new_qty,
                      ![IndexOf(sym)].avg_price = new_avg_price]

\* the position list after the first purchase of a symbol
CreatedPositions(sym, quantity, purchase_price, date) ==
    Append(positions,
           [symbol |-> sym, quantity |-> quantity,
            avg_price |-> RInt(purchase_price),
            first_purchase_date |-> date])

AddPosition(symbol, quantity, purchase_price) ==
    LET sym == Upper(symbol)
        args == <<symbol, quantity, purchase_price>>
        date == Now
    IN  /\ Len(transactions) < MaxTx
        \* the transaction is logged first
        /\ transactions' =
              Append(transactions,
                     BuyTransaction(sym, quantity, purchase_price, date))
        /\ IF Held(sym)
             THEN LET current_qty == Position(sym).quantity
                      current_avg_price == Position(sym).avg_price
                      new_qty == current_qty + quantity
                  IN  IF new_qty = 0
                        THEN \* the division raises after the log was extended
                             /\ positions' = positions
                             /\ ret' = Raised("add_position", args,
                                              "ZeroDivisionError")
                        ELSE /\ positions' =
                                  UpdatedPositions(sym, new_qty,
                                      NewAvgPrice(current_qty, current_avg_price,
                                                  quantity, purchase_price))
                             /\ ret' = Returned("add_position", args, None)
             ELSE /\ positions' =
                        CreatedPositions(sym, quantity, purchase_price, date)
                  /\ ret' = Returned("add_position", args, None)

---------------------------------------------------------------------------
(* PortfolioTracker.remove_position *)

\* the guard of the "Insufficient shares" error
InsufficientShares(held_qty, quantity) == held_qty < quantity

ProfitLoss(sale_price, avg_price, quantity) ==
    RMul(RSub(RInt(sale_price), avg_price), RInt(quantity))

\* the percentage taken of the sale price instead of the average price
ProfitLossPct_OfSalePrice(sale_price, avg_price) ==
    RMul(RDiv(RSub(RInt(sale_price), avg_price), RInt(sale_price)), RInt(100))

\* avg_price # 0
ProfitLossPct(sale_price, avg_price) ==
    RMul(RDiv(RSub(RInt(sale_price), avg_price), avg_price), RInt(100))

SellTransaction(sym, quantity, sale_price, date, avg_price) ==
    [type |-> "SELL", symbol |-> sym, quantity |-> quantity,
     price |-> sale_price, date |-> date,
     total |-> quantity * sale_price,
     profit_loss |-> ProfitLoss(sale_price, avg_price, quantity),
     profit_loss_pct |-> ProfitLossPct(sale_price, avg_price)]

\* a sale that keeps a position sold down to 0
SoldPositions_KeepsClosed(sym, quantity) ==
    [positions EXCEPT ![IndexOf(sym)].quantity = @ - quantity]

\* the position list after a sale: the quantity is decremented and the
\* position deleted when it reaches 0
SoldPositions(sym, quantity) ==
    IF Position(sym).quantity - quantity = 0
      THEN DelPosition(sym)
      ELSE [positions EXCEPT ![IndexOf(sym)].quantity = @ - quantity]

\* a sale whose log entry is written before the checks are made
FailedRemove_LoggedFirst(args, err) ==
    /\ Len(transactions) < MaxTx
    /\ ret' = Raised("remove_position", args, err)
    /\ transactions' =
          Append(transactions,
                 [type |-> "SELL", symbol |-> Upper(args[1]),
                  quantity |-> args[2], price |-> args[3], date |-> Now,
                  total |-> args[2] * args[3]])
    /\ positions' = positions

\* remove_position raising: every raise precedes the first assignment
FailedRemove(args, err) ==
    /\ ret' = Raised("remove_position", args, err)
    /\ UNCHANGED <<positions, transactions>>

RemovePosition(symbol, quantity, sale_price) ==
    LET sym == Upper(symbol)
        args == <<symbol, quantity, sale_price>>
    IN  IF ~Held(sym)
          THEN FailedRemove(args, "ValueError: No position found")
          ELSE IF InsufficientShares(Position(sym).quantity, quantity)
          THEN FailedRemove(args, "ValueError: Insufficient shares")
          ELSE IF Position(sym).avg_price = RZero
          THEN \* profit_loss_pct divides by avg_price before any update
               FailedRemove(args, "ZeroDivisionError")
          ELSE LET transaction ==
                       SellTransaction(sym, quantity, sale_price, Now,
                                       Position(sym).avg_price)
               IN  /\ Len(transactions) < MaxTx
                   /\ transactions' = Append(transactions, transaction)
                   /\ positions' = SoldPositions(sym, quantity)
                   /\ ret' = Returned("remove_position", args, transaction)

---------------------------------------------------------------------------
(* PortfolioTracker.get_position_value / get_portfolio_summary *)

\* get_position_value for a held symbol with a non-zero cost basis
PositionValue(sym, current_price) ==
    LET position == Position(sym)
        current_value == RInt(position.quantity * current_price)
        cost_basis == RMul(RInt(position.quantity), position.avg_price)
        profit_loss == RSub(current_value, cost_basis)
    IN  [symbol |-> sym,
         quantity |-> position.quantity,
         avg_price |-> position.avg_price,
         current_price |-> current_price,
         cost_basis |-> cost_basis,
         current_value |-> current_value,
         profit_loss |-> profit_loss,
         profit_loss_pct |-> RMul(RDiv(profit_loss, cost_basis), RInt(100))]

\* a summary loop that looks up every held symbol
InSummary_EveryHeld(sym, current_prices) == TRUE

\* the test that lets a held symbol into the summary
InSummary(sym, current_prices) == sym \in DOMAIN current_prices

\* the loop of get_portfolio_summary from the i-th position on, in the
\* dictionary's (insertion) order; acc holds total_value, total_cost,
\* positions_summary and the error raised, if any
RECURSIVE SummaryLoop(_, _, _)
SummaryLoop(i, current_prices, acc) ==
    IF i > Len(positions) \/ acc.raised # "none" THEN acc
    ELSE LET position == positions[i]
         IN  IF ~InSummary(position.symbol, current_prices)
               THEN SummaryLoop(i + 1, current_prices, acc)
             ELSE IF position.symbol \notin DOMAIN current_prices
               THEN \* current_prices[symbol] on a missing key
                    [acc EXCEPT !.raised = "KeyError"]
             ELSE IF position.quantity = 0 \/ position.avg_price = RZero
               THEN \* get_position_value divides by a zero cost basis
                    [acc EXCEPT !.raised = "ZeroDivisionError"]
             ELSE LET position_value ==
                          PositionValue(position.symbol,
                                        current_prices[position.symbol])
                  IN  SummaryLoop(i + 1, current_prices,
                          [raised |-> "none",
                           total_value |->
                               RAdd(acc.total_value,
                                    position_value.current_value),
                           total_cost |->
                               RAdd(acc.total_cost, position_value.cost_basis),
                           positions_summary |->
                               Append(acc.positions_summary, position_value)])

\* len(self.positions), reported as total_positions
TotalPositions == Len(positions)

\* total_profit_loss_pct: 0 unless total_cost > 0
TotalProfitLossPct(total_profit_loss, total_cost) ==
    IF RLess(RZero, total_cost)
      THEN RMul(RDiv(total_profit_loss, total_cost), RInt(100))
      ELSE RZero

\* the dictionary get_portfolio_summary returns after its loop
SummaryOf(acc) ==
    [total_positions |-> TotalPositions,
     total_value |-> acc.total_value,
     total_cost |-> acc.total_cost,
     total_profit_loss |-> RSub(acc.total_value, acc.total_cost),
     total_profit_loss_pct |->
         TotalProfitLossPct(RSub(acc.total_value, acc.total_cost),
                            acc.total_cost),
     positions |-> acc.positions_summary]

SummaryResult(current_prices, acc) ==
    IF acc.raised # "none"
      THEN Raised("get_portfolio_summary", <<current_prices>>, acc.raised)
      ELSE Returned("get_portfolio_summary", <<current_prices>>,
                    SummaryOf(acc))

GetPortfolioSummary(current_prices) ==
    /\ UNCHANGED <<positions, transactions>>
    /\ ret' = SummaryResult(current_prices,
                  SummaryLoop(1, current_prices,
                      [raised |-> "none", total_value |-> RZero,
                       total_cost |-> RZero, positions_summary |-> <<>>]))

---------------------------------------------------------------------------
(* The portfolio tracker as a state machine *)

\* PortfolioTracker(portfolio_file) with no file on disk: load_portfolio
\* leaves the ledger empty
InitPortfolio ==
    /\ positions = <<>>
    /\ transactions = <<>>
    /\ ret = Returned("__init__", <<>>, None)

\* no signal generator is in use
NoGenerator ==
    /\ data = [columns |-> {}, rows |-> <<>>]
    /\ signals = <<>>
    /\ rec = [op |-> "__init__"]

\* no indicator calculator is in use
NoIndicators ==
    /\ frame = [columns |-> {}, rows |-> <<>>]
    /\ calc = Returned("__init__", <<>>, None)

\* pd.DataFrame()
EmptyDataFrame == [columns |-> {}, rows |-> <<>>]

\* the provider was not asked
NoAnswer == [raised |-> FALSE, df |-> EmptyDataFrame]

\* StockService() and IndianStockService() as constructed: both caches
\* are empty and nothing was asked yet
NoFetches ==
    /\ stock_cache = <<>>
    /\ indian_cache = <<>>
    /\ fetched = [service |-> "__init__", symbol |-> "", days |-> 0,
                  contacted |-> FALSE, answer |-> NoAnswer,
                  df |-> EmptyDataFrame]
    /\ served = [StockService |-> <<>>, IndianStockService |-> <<>>]

Init == InitPortfolio /\ NoGenerator /\ NoIndicators /\ NoFetches

AddStep ==
    /\ \E symbol \in InputSymbols, quantity \in Quantities,
          purchase_price \in PurchasePrices :
           AddPosition(symbol, quantity, purchase_price)
    /\ UNCHANGED <<svars, ivars, cvars>>

RemoveStep ==
    /\ \E symbol \in InputSymbols, quantity \in Quantities,
          sale_price \in SalePrices :
           RemovePosition(symbol, quantity, sale_price)
    /\ UNCHANGED <<svars, ivars, cvars>>

SummaryStep ==
    /\ \E current_prices \in PriceMaps : GetPortfolioSummary(current_prices)
    /\ UNCHANGED <<svars, ivars, cvars>>

Next == AddStep \/ RemoveStep \/ SummaryStep

Spec == Init /\ [][Next]_vars

---------------------------------------------------------------------------
(* Properties of the portfolio tracker *)

Last(seq) == seq[Len(seq)]

\* this step is a remove_position call (a repeated identical failing call
\* changes nothing at all)
IsRemoveCall == ret'.op = "remove_position" /\ ret' # ret

\* this step is an add_position call: only add_position logs a BUY
IsAddCall ==
    /\ Len(transactions') = Len(transactions) + 1
    /\ Last(transactions').type = "BUY"

\* C1: remove_position raises when the symbol is not held or when the
\* quantity asked for exceeds the quantity held, and whenever it raises
\* the positions and the transaction log are exactly as before (no SELL
\* transaction is appended).
C1_RemoveFailureLeavesLedger ==
    [][IsRemoveCall =>
         LET sym == Upper(ret'.args[1])
             quantity == ret'.args[2]
         IN  /\ ~Held(sym) => ret'.raised = "ValueError: No position found"
             /\ (Held(sym) /\ Position(sym).quantity < quantity)
                   => ret'.raised = "ValueError: Insufficient shares"
             /\ ret'.raised # "none"
                   => /\ positions' = positions
                      /\ transactions' = transactions]_vars

\* a sale of more shares than held was refused on a non-empty ledger
C1_Witness ==
    /\ ret.op = "remove_position"
    /\ ret.raised = "ValueError: Insufficient shares"
    /\ Held(Upper(ret.args[1]))
    /\ Position(Upper(ret.args[1])).quantity < ret.args[2]
    /\ Len(transactions) > 0

\* C2: every position in the ledger has a quantity strictly greater than
\* 0, whatever calls (failed ones included) were made since the empty
\* ledger; a position sold down to exactly 0 is no longer in the ledger.
C2_QuantitiesPositive ==
    /\ \A i \in DOMAIN positions : positions[i].quantity > 0
    /\ (ret.op = "remove_position" /\ ret.raised = "none")
          => \/ ~Held(ret.value.symbol)
             \/ Position(ret.value.symbol).quantity > 0

\* a sale closed a position, which left the ledger
C2_Witness ==
    /\ ret.op = "remove_position"
    /\ ret.raised = "none"
    /\ ~Held(ret.value.symbol)
    /\ positions # <<>>

\* C3: add_position on a held symbol adds the quantities and sets the
\* average price to (old_qty*old_avg + new_qty*new_price)/(old_qty+new_qty);
\* on a symbol not held it creates the position with the given quantity
\* and price.  10 @ 150 then 10 @ 170 gives quantity 20 at average 160.
C3_AddPositionAverages ==
    /\ [][IsAddCall =>
            LET t == Last(transactions')
            IN  /\ HeldIn(positions', t.symbol)
                /\ IF Held(t.symbol)
                     THEN LET old == Position(t.symbol)
                              new == PositionIn(positions', t.symbol)
                          IN  /\ new.quantity = old.quantity + t.quantity
                              /\ RMul(new.avg_price, RInt(new.quantity)) =
                                   RAdd(RMul(RInt(old.quantity), old.avg_price),
                                        RInt(t.quantity * t.price))
                     ELSE /\ PositionIn(positions', t.symbol).quantity = t.quantity
                          /\ PositionIn(positions', t.symbol).avg_price = RInt(t.price)]_vars
    /\ []((/\ Len(transactions) = 2
           /\ \A i \in 1..2 : /\ transactions[i].type = "BUY"
                              /\ transactions[i].symbol = "AAPL"
                              /\ transactions[i].quantity = 10
           /\ transactions[1].price = 150
           /\ transactions[2].price = 170)
          => /\ Held("AAPL")
             /\ Position("AAPL").quantity = 20
             /\ Position("AAPL").avg_price = RInt(160))

\* a second purchase of unequal size was averaged into a held position
C3_Witness ==
    /\ ret.op = "add_position"
    /\ Len(transactions) = 2
    /\ transactions[1].type = "BUY" /\ transactions[2].type = "BUY"
    /\ transactions[1].symbol = transactions[2].symbol
    /\ transactions[1].quantity # transactions[2].quantity
    /\ transactions[1].price # transactions[2].price
    /\ Position(transactions[1].symbol).quantity = 15

\* C4: a successful remove_position returns
\* profit_loss = (sale_price - average_price) * qty and
\* profit_loss_pct = (sale_price - average_price)/average_price * 100,
\* decrements the quantity held by exactly qty and leaves the average
\* price as it was.  At average 160 and quantity 20, selling 5 @ 200 gives
\* profit_loss 200, profit_loss_pct 25 and 15 shares left.
C4_RemovePositionProfit ==
    /\ [][(IsRemoveCall /\ ret'.raised = "none") =>
            LET sym == Upper(ret'.args[1])
                quantity == ret'.args[2]
                sale_price == ret'.args[3]
                old == Position(sym)
                gain == RSub(RInt(sale_price), old.avg_price)
            IN  /\ ret'.value.profit_loss = RMul(gain, RInt(quantity))
                /\ RMul(ret'.value.profit_loss_pct, old.avg_price) =
                     RMul(gain, RInt(100))
                /\ IF old.quantity = quantity
                     THEN ~HeldIn(positions', sym)
                     ELSE /\ HeldIn(positions', sym)
                          /\ PositionIn(positions', sym).quantity = old.quantity - quantity
                          /\ PositionIn(positions', sym).avg_price = old.avg_price]_vars
    /\ []((/\ Len(transactions) = 3
           /\ ret.op = "remove_position" /\ ret.raised = "none"
           /\ Upper(ret.args[1]) = "AAPL"
           /\ ret.args[2] = 5 /\ ret.args[3] = 200
           /\ transactions[1].symbol = "AAPL"
           /\ transactions[2].symbol = "AAPL"
           /\ transactions[1].quantity = 10 /\ transactions[2].quantity = 10
           /\ {transactions[1].price, transactions[2].price} = {150, 170})
          => /\ ret.value.profit_loss = RInt(200)
             /\ ret.value.profit_loss_pct = RInt(25)
             /\ Position("AAPL").quantity = 15
             /\ Position("AAPL").avg_price = RInt(160))

\* 5 of 20 shares held at average 160 were sold at 200
C4_Witness ==
    /\ ret.op = "remove_position" /\ ret.raised = "none"
    /\ ret.args[2] = 5 /\ ret.args[3] = 200
    /\ ret.value.profit_loss = RInt(200)
    /\ ret.value.profit_loss_pct = RInt(25)
    /\ Held("AAPL")
    /\ Position("AAPL").quantity = 15
    /\ Position("AAPL").avg_price = RInt(160)

\* sum of g[sym] over the symbols in S, taken in any order
RECURSIVE SumHeld(_, _)
SumHeld(S, g) ==
    IF S = {} THEN RZero
    ELSE LET sym == CHOOSE x \in S : TRUE
         IN  RAdd(g[sym], SumHeld(S \ {sym}, g))

\* C5: get_portfolio_summary never fails because a held symbol is missing
\* from current_prices; total_value and total_cost are the sums of
\* quantity*current_price and quantity*avg_price over exactly the held
\* symbols that appear in current_prices, and the positions list holds
\* exactly those symbols.
C5_SummaryOverPricedPositions ==
    ret.op = "get_portfolio_summary" =>
        LET current_prices == ret.args[1]
            priced == HeldSymbols \cap DOMAIN current_prices
            Value == [sym \in priced |->
                         RInt(Position(sym).quantity * current_prices[sym])]
            Cost == [sym \in priced |->
                        RMul(RInt(Position(sym).quantity),
                             Position(sym).avg_price)]
        IN  /\ ret.raised = "none"
            /\ {ret.value.positions[k].symbol :
                    k \in DOMAIN ret.value.positions} = priced
            /\ Len(ret.value.positions) = Cardinality(priced)
            /\ ret.value.total_value = SumHeld(priced, Value)
            /\ ret.value.total_cost = SumHeld(priced, Cost)

\* a summary was taken with one held symbol priced and another one missing
C5_Witness ==
    /\ ret.op = "get_portfolio_summary"
    /\ ret.raised = "none"
    /\ HeldSymbols \cap DOMAIN ret.args[1] # {}
    /\ HeldSymbols \ DOMAIN ret.args[1] # {}

---------------------------------------------------------------------------
(* SignalGenerator: the indicator frame *)

\* an undefined indicator value (numpy NaN); defined values are >= 0
NaN == -1

\* an undefined value taken for a number
NotNa_Always(x) == TRUE

\* pd.notna
NotNa(x) == x # NaN

AllColumns ==
    {"Close", "SMA_20", "SMA_50", "RSI", "MACD", "MACD_Signal", "BB_High",
     "BB_Low", "Stoch_K", "Stoch_D", "ADX", "ADX_Pos", "ADX_Neg"}

\* self.data[column].iloc[i - 1]: bars are numbered from 1 here
Col(i, column) == data.rows[i][column]

\* len(self.data)
NumBars == Len(data.rows)

\* self.data.index[i]: the bars are dated by their ascending position
DateOf(i) == i

\* the dictionary a rule appends to self.signals
Signal(i, type, name, description, strength) ==
    [date |-> DateOf(i), type |-> type, signal |-> name,
     description |-> description, strength |-> strength,
     price |-> Col(i, "Close")]

RECURSIVE Flatten(_)
Flatten(ss) == IF ss = <<>> THEN <<>> ELSE Head(ss) \o Flatten(Tail(ss))

\* for i in range(1, len(self.data)): what a rule appends at each bar,
\* in ascending order of the bars
Scan(at) == Flatten([k \in 1..(NumBars - 1) |-> at[k + 1]])

---------------------------------------------------------------------------
(* SignalGenerator.moving_average_crossover *)

\* a Golden Cross reported whenever the short average is above the long one
GoldenCross_Level(prev_20, curr_20, prev_50, curr_50) == curr_20 > curr_50

GoldenCross(prev_20, curr_20, prev_50, curr_50) ==
    prev_20 <= prev_50 /\ curr_20 > curr_50

DeathCross(prev_20, curr_20, prev_50, curr_50) ==
    prev_20 >= prev_50 /\ curr_20 < curr_50

MovingAverageCrossoverAt(i) ==
    LET prev_20 == Col(i - 1, "SMA_20")
        curr_20 == Col(i, "SMA_20")
        prev_50 == Col(i - 1, "SMA_50")
        curr_50 == Col(i, "SMA_50")
    IN  IF NotNa(prev_20) /\ NotNa(curr_20) /\ NotNa(prev_50) /\ NotNa(curr_50)
          THEN IF GoldenCross(prev_20, curr_20, prev_50, curr_50)
                 THEN <<Signal(i, "BUY", "Golden Cross",
                               "SMA 20 crossed above SMA 50", "STRONG")>>
               ELSE IF DeathCross(prev_20, curr_20, prev_50, curr_50)
                 THEN <<Signal(i, "SELL", "Death Cross",
                               "SMA 20 crossed below SMA 50", "STRONG")>>
               ELSE <<>>
          ELSE <<>>

MovingAverageCrossover ==
    IF "SMA_20" \notin data.columns \/ "SMA_50" \notin data.columns
      THEN <<>>
      ELSE Scan([i \in 2..NumBars |-> MovingAverageCrossoverAt(i)])

---------------------------------------------------------------------------
(* SignalGenerator.rsi_signals *)

RsiSignalsAt(i) ==
    LET prev_rsi == Col(i - 1, "RSI")
        curr_rsi == Col(i, "RSI")
    IN  IF NotNa(prev_rsi) /\ NotNa(curr_rsi)
          THEN IF prev_rsi <= 30 /\ curr_rsi > 30
                 THEN <<Signal(i, "BUY", "RSI Oversold Recovery",
                               "RSI moved above 30 (oversold recovery)",
                               "MEDIUM")>>
               ELSE IF prev_rsi >= 70 /\ curr_rsi < 70
                 THEN <<Signal(i, "SELL", "RSI Overbought Correction",
                               "RSI moved below 70 (overbought correction)",
                               "MEDIUM")>>
               ELSE <<>>
          ELSE <<>>

RsiSignals ==
    IF "RSI" \notin data.columns
      THEN <<>>
      ELSE Scan([i \in 2..NumBars |-> RsiSignalsAt(i)])

---------------------------------------------------------------------------
(* SignalGenerator.macd_signals *)

MacdSignalsAt(i) ==
    LET prev_macd == Col(i - 1, "MACD")
        curr_macd == Col(i, "MACD")
        prev_signal == Col(i - 1, "MACD_Signal")
        curr_signal == Col(i, "MACD_Signal")
    IN  IF \A x \in {prev_macd, curr_macd, prev_signal, curr_signal} : NotNa(x)
          THEN IF prev_macd <= prev_signal /\ curr_macd > curr_signal
                 THEN <<Signal(i, "BUY", "MACD Bullish Crossover",
                               "MACD crossed above signal line", "STRONG")>>
               ELSE IF prev_macd >= prev_signal /\ curr_macd < curr_signal
                 THEN <<Signal(i, "SELL", "MACD Bearish Crossover",
                               "MACD crossed below signal line", "STRONG")>>
               ELSE <<>>
          ELSE <<>>

MacdSignals ==
    IF "MACD" \notin data.columns \/ "MACD_Signal" \notin data.columns
      THEN <<>>
      ELSE Scan([i \in 2..NumBars |-> MacdSignalsAt(i)])

---------------------------------------------------------------------------
(* SignalGenerator.bollinger_band_signals *)

BollingerBandSignalsAt(i) ==
    LET prev_close == Col(i - 1, "Close")
        curr_close == Col(i, "Close")
        prev_bb_low == Col(i - 1, "BB_Low")
        curr_bb_low == Col(i, "BB_Low")
        prev_bb_high == Col(i - 1, "BB_High")
        curr_bb_high == Col(i, "BB_High")
    IN  IF \A x \in {prev_close, curr_close, prev_bb_low, curr_bb_low,
                     prev_bb_high, curr_bb_high} : NotNa(x)
          THEN IF prev_close <= prev_bb_low /\ curr_close > curr_bb_low
                 THEN <<Signal(i, "BUY", "BB Lower Band Bounce",
                               "Price bounced from lower Bollinger Band",
                               "MEDIUM")>>
               ELSE IF prev_close >= prev_bb_high /\ curr_close < curr_bb_high
                 THEN <<Signal(i, "SELL", "BB Upper Band Rejection",
                               "Price rejected from upper Bollinger Band",
                               "MEDIUM")>>
               ELSE <<>>
          ELSE <<>>

BollingerBandSignals ==
    IF ~({"BB_High", "BB_Low", "Close"} \subseteq data.columns)
      THEN <<>>
      ELSE Scan([i \in 2..NumBars |-> BollingerBandSignalsAt(i)])

---------------------------------------------------------------------------
(* SignalGenerator.stochastic_signals *)

\* the crossovers reported in whatever region %K is
StochasticSignalsAt_AnyRegion(i) ==
    LET prev_k == Col(i - 1, "Stoch_K")
        curr_k == Col(i, "Stoch_K")
        prev_d == Col(i - 1, "Stoch_D")
        curr_d == Col(i, "Stoch_D")
    IN  IF \A x \in {prev_k, curr_k, prev_d, curr_d} : NotNa(x)
          THEN IF prev_k <= prev_d /\ curr_k > curr_d
                 THEN <<Signal(i, "BUY", "Stochastic Bullish Crossover",
                          "Stochastic %K crossed above %D in oversold region",
                          "STRONG")>>
               ELSE IF prev_k >= prev_d /\ curr_k < curr_d
                 THEN <<Signal(i, "SELL", "Stochastic Bearish Crossover",
                          "Stochastic %K crossed below %D in overbought region",
                          "STRONG")>>
               ELSE <<>>
          ELSE <<>>

StochasticSignalsAt(i) ==
    LET prev_k == Col(i - 1, "Stoch_K")
        curr_k == Col(i, "Stoch_K")
        prev_d == Col(i - 1, "Stoch_D")
        curr_d == Col(i, "Stoch_D")
    IN  IF \A x \in {prev_k, curr_k, prev_d, curr_d} : NotNa(x)
          THEN IF prev_k <= prev_d /\ curr_k > curr_d /\ curr_k < 20
                 THEN <<Signal(i, "BUY", "Stochastic Bullish Crossover",
                          "Stochastic %K crossed above %D in oversold region",
                          "STRONG")>>
               ELSE IF prev_k >= prev_d /\ curr_k < curr_d /\ curr_k > 80
                 THEN <<Signal(i, "SELL", "Stochastic Bearish Crossover",
                          "Stochastic %K crossed below %D in overbought region",
                          "STRONG")>>
               ELSE <<>>
          ELSE <<>>

StochasticSignals ==
    IF "Stoch_K" \notin data.columns \/ "Stoch_D" \notin data.columns
      THEN <<>>
      ELSE Scan([i \in 2..NumBars |-> StochasticSignalsAt(i)])

---------------------------------------------------------------------------
(* SignalGenerator.trend_strength_signals *)

\* the crossing reported whatever the size of the leading directional index
TrendStrengthSignalsAt_AnyMagnitude(i) ==
    LET adx == Col(i, "ADX")
        adx_pos == Col(i, "ADX_Pos")
        adx_neg == Col(i, "ADX_Neg")
        prev_adx == Col(i - 1, "ADX")
    IN  IF (\A x \in {adx, adx_pos, adx_neg} : NotNa(x)) /\ adx > 25
          THEN IF adx_pos > adx_neg
                 THEN IF NotNa(prev_adx) /\ prev_adx <= 25
                        THEN <<Signal(i, "BUY", "Strong Uptrend Emerging",
                                 "ADX indicates strong uptrend forming",
                                 "STRONG")>>
                        ELSE <<>>
               ELSE IF adx_neg > adx_pos
                 THEN IF NotNa(prev_adx) /\ prev_adx <= 25
                        THEN <<Signal(i, "SELL", "Strong Downtrend Emerging",
                                 "ADX indicates strong downtrend forming",
                                 "STRONG")>>
                        ELSE <<>>
               ELSE <<>>
          ELSE <<>>

TrendStrengthSignalsAt(i) ==
    LET adx == Col(i, "ADX")
        adx_pos == Col(i, "ADX_Pos")
        adx_neg == Col(i, "ADX_Neg")
        prev_adx == Col(i - 1, "ADX")
    IN  IF (\A x \in {adx, adx_pos, adx_neg} : NotNa(x)) /\ adx > 25
          THEN IF adx_pos > adx_neg /\ adx_pos > 25
                 THEN IF NotNa(prev_adx) /\ prev_adx <= 25
                        THEN <<Signal(i, "BUY", "Strong Uptrend Emerging",
                                 "ADX indicates strong uptrend forming",
                                 "STRONG")>>
                        ELSE <<>>
               ELSE IF adx_neg > adx_pos /\ adx_neg > 25
                 THEN IF NotNa(prev_adx) /\ prev_adx <= 25
                        THEN <<Signal(i, "SELL", "Strong Downtrend Emerging",
                                 "ADX indicates strong downtrend forming",
                                 "STRONG")>>
                        ELSE <<>>
               ELSE <<>>
          ELSE <<>>

TrendStrengthSignals ==
    IF "ADX" \notin data.columns
      THEN <<>>
    ELSE IF "ADX_Pos" \in data.columns /\ "ADX_Neg" \in data.columns
      THEN Scan([i \in 2..NumBars |-> TrendStrengthSignalsAt(i)])
      ELSE <<>>

---------------------------------------------------------------------------
(* SignalGenerator.generate_all_signals *)

\* self.signals after generate_all_signals: emptied, then extended by the
\* six rules in turn
AllSignals ==
    MovingAverageCrossover \o RsiSignals \o MacdSignals
        \o BollingerBandSignals \o StochasticSignals \o TrendStrengthSignals

\* `if not self.signals: self.generate_all_signals()`
EnsureSignals == IF signals = <<>> THEN AllSignals ELSE signals

\* a generate_all_signals that extends the list it finds
GenerateAllSignals_Appending ==
    /\ signals' = signals \o AllSignals
    /\ rec' = [op |-> "generate_all_signals", value |-> signals \o AllSignals]
    /\ UNCHANGED data

GenerateAllSignals ==
    /\ signals' = AllSignals
    /\ rec' = [op |-> "generate_all_signals", value |-> AllSignals]
    /\ UNCHANGED data

---------------------------------------------------------------------------
(* SignalGenerator.get_latest_signals *)

\* x placed behind every signal dated at or after it
RECURSIVE InsertByDate(_, _)
InsertByDate(sorted, x) ==
    IF sorted = <<>> THEN <<x>>
    ELSE IF Head(sorted).date >= x.date
      THEN <<Head(sorted)>> \o InsertByDate(Tail(sorted), x)
      ELSE <<x>> \o sorted

\* sorted(sigs, key=lambda x: x['date'], reverse=True): most recent first,
\* signals of one date in their order in sigs (the sort is stable)
RECURSIVE SortInto(_, _)
SortInto(sorted, sigs) ==
    IF sigs = <<>> THEN sorted
    ELSE SortInto(InsertByDate(sorted, Head(sigs)), Tail(sigs))

SortedByDateDesc(sigs) == SortInto(<<>>, sigs)

\* seq[:n], n >= 0
FirstN(seq, n) == SubSeq(seq, 1, IF n < Len(seq) THEN n ELSE Len(seq))

\* the last n signals in the order they were detected
LatestSignals_DetectionOrder(sigs, n) ==
    SubSeq(sigs, IF Len(sigs) > n THEN Len(sigs) - n + 1 ELSE 1, Len(sigs))

\* what get_latest_signals(n) returns when self.signals is sigs
LatestSignals(sigs, n) == FirstN(SortedByDateDesc(sigs), n)

GetLatestSignals(n) ==
    /\ signals' = EnsureSignals
    /\ rec' = [op |-> "get_latest_signals", n |-> n,
               value |-> LatestSignals(EnsureSignals, n)]
    /\ UNCHANGED data

---------------------------------------------------------------------------
(* SignalGenerator.get_current_recommendation *)

\* the number of recent signals scored, and of those returned
ScoredSignals == 10
ReturnedSignals == 5

StrengthMultiplier(strength) ==
    CASE strength = "STRONG" -> RInt(2)
      [] strength = "MEDIUM" -> RInt(1)
      [] strength = "WEAK" -> Rat(1, 2)
      [] OTHER -> RInt(1)

\* buy_score (type "BUY") or sell_score (type "SELL") after the loop
RECURSIVE Score(_, _)
Score(recent_signals, type) ==
    IF recent_signals = <<>> THEN RZero
    ELSE RAdd(IF Head(recent_signals).type = type
                THEN StrengthMultiplier(Head(recent_signals).strength)
                ELSE RZero,
              Score(Tail(recent_signals), type))

\* a * 1.5
TimesOneAndHalf(a) == RMul(a, Rat(3, 2))

\* thresholds met with equality count as crossed
Recommend_NonStrict(buy_score, sell_score) ==
    IF RLeq(TimesOneAndHalf(sell_score), buy_score) THEN "STRONG BUY"
    ELSE IF RLeq(sell_score, buy_score) THEN "BUY"
    ELSE IF RLeq(TimesOneAndHalf(buy_score), sell_score) THEN "STRONG SELL"
    ELSE IF RLeq(buy_score, sell_score) THEN "SELL"
    ELSE "HOLD"

\* the plain comparisons made before the 1.5 thresholds
Recommend_PlainFirst(buy_score, sell_score) ==
    IF RLess(sell_score, buy_score) THEN "BUY"
    ELSE IF RLess(TimesOneAndHalf(sell_score), buy_score) THEN "STRONG BUY"
    ELSE IF RLess(buy_score, sell_score) THEN "SELL"
    ELSE IF RLess(TimesOneAndHalf(buy_score), sell_score) THEN "STRONG SELL"
    ELSE "HOLD"

\* the chain of comparisons that determines the recommendation
Recommend(buy_score, sell_score) ==
    IF RLess(TimesOneAndHalf(sell_score), buy_score) THEN "STRONG BUY"
    ELSE IF RLess(sell_score, buy_score) THEN "BUY"
    ELSE IF RLess(TimesOneAndHalf(buy_score), sell_score) THEN "STRONG SELL"
    ELSE IF RLess(buy_score, sell_score) THEN "SELL"
    ELSE "HOLD"

\* max(a, b)
RMax(a, b) == IF RLess(a, b) THEN b ELSE a

\* the difference of the scores taken with its sign
Confidence_Signed(buy_score, sell_score) ==
    RMul(RDiv(RSub(buy_score, sell_score),
              RMax(RAdd(buy_score, sell_score), RInt(1))),
         RInt(100))

\* abs(buy_score - sell_score) / max(buy_score + sell_score, 1) * 100
Confidence(buy_score, sell_score) ==
    RMul(RDiv(RAbs(RSub(buy_score, sell_score)),
              RMax(RAdd(buy_score, sell_score), RInt(1))),
         RInt(100))

\* the dictionary get_current_recommendation returns when self.signals
\* is sigs
RecommendationOf(sigs) ==
    LET recent_signals == LatestSignals(sigs, ScoredSignals)
        buy_score == Score(recent_signals, "BUY")
        sell_score == Score(recent_signals, "SELL")
    IN  [recommendation |-> Recommend(buy_score, sell_score),
         buy_score |-> buy_score,
         sell_score |-> sell_score,
         recent_signals |-> FirstN(recent_signals, ReturnedSignals),
         confidence |-> Confidence(buy_score, sell_score)]

GetCurrentRecommendation ==
    /\ signals' = EnsureSignals
    /\ rec' = [op |-> "get_current_recommendation",
               value |-> RecommendationOf(EnsureSignals)]
    /\ UNCHANGED data

---------------------------------------------------------------------------
(* The signal generator as a state machine *)

\* the n passed to get_latest_signals (5 is its default)
LatestCounts == {1, 5}

\* rows of a frame that holds every indicator column.  Warm: the
\* indicators are still undefined; Quiet: every indicator neutral; Bull and
\* Bear: every indicator bullish / bearish (ADX strong only when bullish);
\* Mixed: trend indicators bullish, oscillators bearish.
WarmRow ==
    [c \in AllColumns |-> IF c = "Close" THEN 100 ELSE NaN]

QuietRow ==
    [Close |-> 100, SMA_20 |-> 2, SMA_50 |-> 2, RSI |-> 50,
     MACD |-> 5, MACD_Signal |-> 5, BB_High |-> 110, BB_Low |-> 95,
     Stoch_K |-> 50, Stoch_D |-> 50, ADX |-> 20, ADX_Pos |-> 20,
     ADX_Neg |-> 20]

BullRow ==
    [Close |-> 120, SMA_20 |-> 3, SMA_50 |-> 2, RSI |-> 75,
     MACD |-> 6, MACD_Signal |-> 5, BB_High |-> 110, BB_Low |-> 95,
     Stoch_K |-> 15, Stoch_D |-> 10, ADX |-> 30, ADX_Pos |-> 30,
     ADX_Neg |-> 10]

BearRow ==
    [Close |-> 90, SMA_20 |-> 1, SMA_50 |-> 2, RSI |-> 25,
     MACD |-> 4, MACD_Signal |-> 5, BB_High |-> 110, BB_Low |-> 95,
     Stoch_K |-> 85, Stoch_D |-> 90, ADX |-> 20, ADX_Pos |-> 10,
     ADX_Neg |-> 30]

MixedRow ==
    [Close |-> 90, SMA_20 |-> 3, SMA_50 |-> 2, RSI |-> 25,
     MACD |-> 6, MACD_Signal |-> 5, BB_High |-> 110, BB_Low |-> 95,
     Stoch_K |-> 85, Stoch_D |-> 90, ADX |-> 30, ADX_Pos |-> 30,
     ADX_Neg |-> 10]

RowKinds == {WarmRow, QuietRow, BullRow, BearRow, MixedRow}

\* rows of a frame that holds the two moving averages only
AverageRows ==
    {[Close |-> 100, SMA_20 |-> a, SMA_50 |-> b] :
        a \in {NaN, 1, 2, 3}, b \in {NaN, 2}}

\* the frames of at most MaxBars rows drawn from a set of rows
Frames(columns, rows) ==
    {[columns |-> columns, rows |-> r] :
        r \in UNION {[1..n -> rows] : n \in 0..MaxBars}}

\* no portfolio tracker is in use
NoTracker == InitPortfolio

\* SignalGenerator(data): the frame is copied and no signal is held yet
InitSignals ==
    /\ NoTracker /\ NoIndicators /\ NoFetches
    /\ data \in Frames(AllColumns, RowKinds)
    /\ signals = <<>>
    /\ rec = [op |-> "__init__"]

InitAverages ==
    /\ NoTracker /\ NoIndicators /\ NoFetches
    /\ data \in Frames({"Close", "SMA_20", "SMA_50"}, AverageRows)
    /\ signals = <<>>
    /\ rec = [op |-> "__init__"]

GenerateStep == GenerateAllSignals /\ UNCHANGED <<pvars, ivars, cvars>>

LatestStep ==
    /\ \E n \in LatestCounts : GetLatestSignals(n)
    /\ UNCHANGED <<pvars, ivars, cvars>>

RecommendationStep ==
    GetCurrentRecommendation /\ UNCHANGED <<pvars, ivars, cvars>>

NextSignals == GenerateStep \/ LatestStep \/ RecommendationStep

\* a generator over a frame with every indicator column
SpecSignals == InitSignals /\ [][NextSignals]_vars

\* a generator over a frame with the two moving averages only
SpecAverages == InitAverages /\ [][NextSignals]_vars

\* rows of the frames that hold the columns of one rule only.  The values
\* straddle the rule's thresholds, and each column is undefined in some row.
RsiRows == {[Close |-> 100, RSI |-> r] : r \in {NaN, 25, 30, 50, 70, 75}}

MacdRows ==
    {[Close |-> 100, MACD |-> m, MACD_Signal |-> s] :
        m \in {NaN, 4, 5, 6}, s \in {NaN, 5}}

\* inside the band, below it, above it, on either band, on a band of no
\* width, and one row for each undefined column
BollingerRows ==
    {[Close |-> c[1], BB_Low |-> c[2], BB_High |-> c[3]] :
        c \in {<<100, 95, 110>>, <<90, 95, 110>>, <<120, 95, 110>>,
               <<95, 95, 110>>, <<110, 95, 110>>, <<100, 100, 100>>,
               <<NaN, 95, 110>>, <<100, NaN, 110>>, <<100, 95, NaN>>}}

StochasticRows ==
    {[Close |-> 100, Stoch_K |-> c[1], Stoch_D |-> c[2]] :
        c \in {<<15, 10>>, <<15, 18>>, <<20, 10>>, <<85, 90>>, <<85, 80>>,
               <<80, 90>>, <<50, 50>>, <<NaN, 10>>, <<15, NaN>>}}

TrendRows ==
    {[Close |-> 100, ADX |-> a, ADX_Pos |-> d[1], ADX_Neg |-> d[2]] :
        a \in {25, 30},
        d \in {<<30, 10>>, <<25, 10>>, <<10, 30>>, <<10, 25>>}}
    \cup {[Close |-> 100, ADX |-> c[1], ADX_Pos |-> c[2], ADX_Neg |-> c[3]] :
        c \in {<<NaN, 30, 10>>, <<30, NaN, 30>>, <<30, 30, NaN>>}}

\* the frames of at most n rows drawn from a set of rows
FramesUpTo(n, columns, rows) ==
    {[columns |-> columns, rows |-> r] :
        r \in UNION {[1..k -> rows] : k \in 0..n}}

RuleFrames ==
    FramesUpTo(MaxRuleBars, {"Close", "SMA_20", "SMA_50"}, AverageRows)
    \cup FramesUpTo(MaxRuleBars, {"Close", "RSI"}, RsiRows)
    \cup FramesUpTo(MaxRuleBars, {"Close", "MACD", "MACD_Signal"}, MacdRows)
    \cup FramesUpTo(MaxRuleBars, {"Close", "BB_Low", "BB_High"},
                    BollingerRows)
    \cup FramesUpTo(MaxRuleBars, {"Close", "Stoch_K", "Stoch_D"},
                    StochasticRows)
    \cup FramesUpTo(MaxRuleBars, {"Close", "ADX", "ADX_Pos", "ADX_Neg"},
                    TrendRows)

InitRules ==
    /\ NoTracker /\ NoIndicators /\ NoFetches
    /\ data \in RuleFrames
    /\ signals = <<>>
    /\ rec = [op |-> "__init__"]

\* a generator over a frame with the columns of one rule
SpecRules == InitRules /\ [][NextSignals]_vars

---------------------------------------------------------------------------
(* Properties of the signal generator *)

\* get_current_recommendation has just returned rec.value
Recommended == rec.op = "get_current_recommendation"

\* the weight of a signal's strength, as a rational
WeightOf(sig) ==
    IF sig.strength = "STRONG" THEN <<2, 1>>
    ELSE IF sig.strength = "MEDIUM" THEN <<1, 1>>
    ELSE IF sig.strength = "WEAK" THEN <<1, 2>>
    ELSE <<1, 1>>

\* the total weight of the signals of one direction among those of
\* self.signals whose places are in I
WeightIn(I, type) ==
    SumHeld(I, [i \in I |-> IF signals[i].type = type
                              THEN WeightOf(signals[i]) ELSE <<0, 1>>])

\* C6: on a frame that yields no signals get_current_recommendation
\* returns HOLD with buy_score 0, sell_score 0 and confidence 0.
C6_NoSignalsHold ==
    (Recommended /\ signals = <<>>)
        => /\ rec.value.recommendation = "HOLD"
           /\ rec.value.buy_score = <<0, 1>>
           /\ rec.value.sell_score = <<0, 1>>
           /\ rec.value.confidence = <<0, 1>>

\* a recommendation was asked for on a frame of defined indicators that
\* never cross
C6_Witness ==
    /\ Recommended
    /\ signals = <<>>
    /\ NumBars >= 2
    /\ \A i \in 1..NumBars : \A c \in data.columns : NotNa(Col(i, c))

\* C7: the verdict is a function of the two scores only: STRONG BUY iff
\* buy > 1.5*sell; BUY iff sell < buy <= 1.5*sell; STRONG SELL iff
\* sell > 1.5*buy; SELL iff buy < sell <= 1.5*buy; HOLD iff buy = sell;
\* exactly one of the five applies.
C7_VerdictFromScores ==
    Recommended =>
        LET b == rec.value.buy_score
            s == rec.value.sell_score
            v == rec.value.recommendation
            \* x > y, x > 1.5 * y on rationals
            Gt(x, y) == x[1] * y[2] > y[1] * x[2]
            GtOneAndHalf(x, y) == 2 * x[1] * y[2] > 3 * y[1] * x[2]
            cases == <<
                <<"STRONG BUY", GtOneAndHalf(b, s)>>,
                <<"BUY", Gt(b, s) /\ ~GtOneAndHalf(b, s)>>,
                <<"STRONG SELL", GtOneAndHalf(s, b)>>,
                <<"SELL", Gt(s, b) /\ ~GtOneAndHalf(s, b)>>,
                <<"HOLD", b = s>> >>
        IN  /\ \A k \in 1..5 : (v = cases[k][1]) <=> cases[k][2]
            /\ Cardinality({k \in 1..5 : cases[k][2]}) = 1
            /\ v \in {cases[k][1] : k \in 1..5}
            /\ b[1] >= 0 /\ s[1] >= 0

\* a plain BUY: the buy score exceeds a non-zero sell score by at most half
C7_Witness ==
    /\ Recommended
    /\ rec.value.recommendation = "BUY"
    /\ rec.value.sell_score[1] > 0

\* the places in self.signals of the (at most) n signals that come first
\* when the list is ordered by date, latest first, signals of one date in
\* detection order
LatestPlaces(n) ==
    {i \in DOMAIN signals :
        Cardinality({j \in DOMAIN signals :
            \/ signals[j].date > signals[i].date
            \/ signals[j].date = signals[i].date /\ j < i}) < n}

\* the places of the last n signals in detection order
LastPlaces(n) == {i \in DOMAIN signals : i > Len(signals) - n}

\* C8: buy_score and sell_score are the strength weights (STRONG 2,
\* MEDIUM 1, WEAK 0.5) of the BUY and of the SELL signals among the (at
\* most) 10 signals with the latest dates, taken after the whole list is
\* sorted by date descending, not among the last 10 in detection order.
C8_ScoresOverLatestTen ==
    Recommended =>
        /\ rec.value.buy_score = WeightIn(LatestPlaces(10), "BUY")
        /\ rec.value.sell_score = WeightIn(LatestPlaces(10), "SELL")
        /\ Cardinality(LatestPlaces(10)) =
              IF Len(signals) < 10 THEN Len(signals) ELSE 10
        /\ \A i \in LatestPlaces(10) :
              \A j \in DOMAIN signals \ LatestPlaces(10) :
                  signals[j].date <= signals[i].date

\* more than 10 signals, and the last 10 in detection order would have
\* scored differently
C8_Witness ==
    /\ Recommended
    /\ Len(signals) > 10
    /\ rec.value.buy_score # WeightIn(LastPlaces(10), "BUY")
    /\ rec.value.sell_score # WeightIn(LastPlaces(10), "SELL")

\* C9: confidence = |buy_score - sell_score| / max(buy_score + sell_score, 1)
\* * 100, which lies in [0, 100]; it is 100 when every scored signal (of
\* total weight >= 1) points the same way and 0 when the scores are equal.
C9_ConfidenceRange ==
    Recommended =>
        LET b == rec.value.buy_score
            s == rec.value.sell_score
            c == rec.value.confidence
            total == RAdd(b, s)
            floor == IF total[1] < total[2] THEN <<1, 1>> ELSE total
            diff == IF RLess(b, s) THEN RSub(s, b) ELSE RSub(b, s)
        IN  /\ RMul(c, floor) = RMul(diff, <<100, 1>>)
            /\ 0 <= c[1] /\ c[1] <= 100 * c[2]
            /\ ((b = <<0, 1>> \/ s = <<0, 1>>) /\ total[1] >= total[2])
                  => c = <<100, 1>>
            /\ b = s => c = <<0, 1>>

\* a confidence strictly between 0 and 100 with the sell score ahead
C9_Witness ==
    /\ Recommended
    /\ RLess(rec.value.buy_score, rec.value.sell_score)
    /\ rec.value.confidence[1] > 0
    /\ rec.value.confidence[1] < 100 * rec.value.confidence[2]

\* both moving averages are defined at bar t
AveragesDefined(t) == Col(t, "SMA_20") # NaN /\ Col(t, "SMA_50") # NaN

\* SMA_20 crosses SMA_50 upward / downward between bars t-1 and t
CrossesUp(t) ==
    /\ t >= 2
    /\ AveragesDefined(t - 1) /\ AveragesDefined(t)
    /\ Col(t - 1, "SMA_20") <= Col(t - 1, "SMA_50")
    /\ Col(t, "SMA_20") > Col(t, "SMA_50")

CrossesDown(t) ==
    /\ t >= 2
    /\ AveragesDefined(t - 1) /\ AveragesDefined(t)
    /\ Col(t - 1, "SMA_20") >= Col(t - 1, "SMA_50")
    /\ Col(t, "SMA_20") < Col(t, "SMA_50")

\* the places in self.signals of the signals of one name
PlacesOf(name) == {k \in DOMAIN signals : signals[k].signal = name}

\* C10: a BUY "Golden Cross" (STRONG) dated bar t is emitted if and only
\* if SMA_20 and SMA_50 are defined at t-1 and t, SMA_20[t-1] <= SMA_50[t-1]
\* and SMA_20[t] > SMA_50[t] (Death Cross symmetric): one signal per
\* crossing, dated at the crossing bar, none while an average is
\* undefined, and between two Golden Crosses a bar with SMA_20 <= SMA_50.
C10_CrossingsSignalled ==
    rec.op # "__init__" =>
        /\ \A t \in 1..NumBars :
              /\ Cardinality({k \in PlacesOf("Golden Cross") :
                                 signals[k].date = t})
                    = IF CrossesUp(t) THEN 1 ELSE 0
              /\ Cardinality({k \in PlacesOf("Death Cross") :
                                 signals[k].date = t})
                    = IF CrossesDown(t) THEN 1 ELSE 0
        /\ \A k \in DOMAIN signals :
              /\ signals[k].date \in 2..NumBars
              /\ AveragesDefined(signals[k].date)
              /\ AveragesDefined(signals[k].date - 1)
              /\ signals[k].strength = "STRONG"
              /\ \/ signals[k].signal = "Golden Cross" /\ signals[k].type = "BUY"
                 \/ signals[k].signal = "Death Cross" /\ signals[k].type = "SELL"
        /\ \A k1, k2 \in PlacesOf("Golden Cross") :
              signals[k1].date < signals[k2].date
                  => \E u \in signals[k1].date..(signals[k2].date - 1) :
                        /\ AveragesDefined(u)
                        /\ Col(u, "SMA_20") <= Col(u, "SMA_50")

\* two Golden Crosses in one frame with a Death Cross between them
C10_Witness ==
    /\ rec.op = "generate_all_signals"
    /\ Cardinality(PlacesOf("Golden Cross")) = 2
    /\ Cardinality(PlacesOf("Death Cross")) = 1

---------------------------------------------------------------------------
(* Properties of the single rules *)

\* how many signals of one name self.signals holds dated bar t
CountAt(name, t) ==
    Cardinality({k \in PlacesOf(name) : signals[k].date = t})

\* ADX crosses above 25 between bars t-1 and t, with the values the rule
\* reads all defined
AdxCrossesUp(t) ==
    /\ t >= 2
    /\ Col(t - 1, "ADX") # NaN /\ Col(t, "ADX") # NaN
    /\ Col(t, "ADX_Pos") # NaN /\ Col(t, "ADX_Neg") # NaN
    /\ Col(t - 1, "ADX") <= 25
    /\ Col(t, "ADX") > 25

TrendFrame == {"ADX", "ADX_Pos", "ADX_Neg"} \subseteq data.columns

\* C11 as stated: a BUY "Strong Uptrend Emerging" at bar t whenever ADX
\* crosses above 25 at t and +DI[t] > -DI[t], a SELL "Strong Downtrend
\* Emerging" whenever it crosses and -DI[t] > +DI[t], whatever the
\* magnitude of +DI and -DI; nothing where ADX was above 25 at t-1.
C11_AnyMagnitude ==
    (rec.op # "__init__" /\ TrendFrame) =>
        \A t \in 2..NumBars :
            /\ (AdxCrossesUp(t) /\ Col(t, "ADX_Pos") > Col(t, "ADX_Neg"))
                  => CountAt("Strong Uptrend Emerging", t) = 1
            /\ (AdxCrossesUp(t) /\ Col(t, "ADX_Neg") > Col(t, "ADX_Pos"))
                  => CountAt("Strong Downtrend Emerging", t) = 1
            /\ (Col(t - 1, "ADX") # NaN /\ Col(t - 1, "ADX") > 25)
                  => /\ CountAt("Strong Uptrend Emerging", t) = 0
                     /\ CountAt("Strong Downtrend Emerging", t) = 0

\* C11 amended: a BUY "Strong Uptrend Emerging" (STRONG) is emitted at bar
\* t exactly when ADX crosses above 25 at t, +DI[t] > -DI[t] and
\* +DI[t] > 25; a SELL "Strong Downtrend Emerging" (STRONG) exactly when
\* ADX crosses above 25 at t, -DI[t] > +DI[t] and -DI[t] > 25; so nothing
\* is emitted where ADX was already above 25 at t-1, nor where the leading
\* directional index is at most 25.
C11_TrendStrengthOnCrossing ==
    (rec.op # "__init__" /\ TrendFrame) =>
        /\ \A t \in 1..NumBars :
              /\ CountAt("Strong Uptrend Emerging", t)
                    = IF /\ AdxCrossesUp(t)
                         /\ Col(t, "ADX_Pos") > Col(t, "ADX_Neg")
                         /\ Col(t, "ADX_Pos") > 25
                        THEN 1 ELSE 0
              /\ CountAt("Strong Downtrend Emerging", t)
                    = IF /\ AdxCrossesUp(t)
                         /\ Col(t, "ADX_Neg") > Col(t, "ADX_Pos")
                         /\ Col(t, "ADX_Neg") > 25
                        THEN 1 ELSE 0
        /\ \A k \in DOMAIN signals :
              /\ signals[k].strength = "STRONG"
              /\ \/ /\ signals[k].signal = "Strong Uptrend Emerging"
                    /\ signals[k].type = "BUY"
                 \/ /\ signals[k].signal = "Strong Downtrend Emerging"
                    /\ signals[k].type = "SELL"

\* an uptrend reported at the crossing bar 2, nothing at bar 3 where ADX
\* stays above 25 with +DI leading, in a frame of three bars
C11_Witness ==
    /\ rec.op = "generate_all_signals"
    /\ TrendFrame
    /\ NumBars = 3
    /\ CountAt("Strong Uptrend Emerging", 2) = 1
    /\ Col(3, "ADX") > 25 /\ Col(3, "ADX_Pos") > 25
    /\ Col(3, "ADX_Pos") > Col(3, "ADX_Neg")
    /\ CountAt("Strong Uptrend Emerging", 3) = 0

\* the columns a rule compares at both bars of a pair, and those it compares
\* at the later bar only, by the name of the signal the rule emits
PairColumns(name) ==
    CASE name \in {"Golden Cross", "Death Cross"} -> {"SMA_20", "SMA_50"}
      [] name \in {"RSI Oversold Recovery", "RSI Overbought Correction"}
            -> {"RSI"}
      [] name \in {"MACD Bullish Crossover", "MACD Bearish Crossover"}
            -> {"MACD", "MACD_Signal"}
      [] name \in {"BB Lower Band Bounce", "BB Upper Band Rejection"}
            -> {"Close", "BB_Low", "BB_High"}
      [] name \in {"Stochastic Bullish Crossover",
                   "Stochastic Bearish Crossover"}
            -> {"Stoch_K", "Stoch_D"}
      [] name \in {"Strong Uptrend Emerging", "Strong Downtrend Emerging"}
            -> {"ADX"}

LaterColumns(name) ==
    IF name \in {"Strong Uptrend Emerging", "Strong Downtrend Emerging"}
      THEN {"ADX_Pos", "ADX_Neg"}
      ELSE {}

\* C12: for each of the six rules and every bar t, a signal dated t is
\* emitted only if every indicator value the rule compares at bar t-1 and
\* at bar t is defined; no signal is dated at the first bar, and none
\* inside an indicator's warm-up period.
C12_UndefinedNeverSignals ==
    rec.op # "__init__" =>
        \A k \in DOMAIN signals :
            LET t == signals[k].date
                name == signals[k].signal
            IN  /\ t \in 2..NumBars
                /\ \A c \in PairColumns(name) :
                      Col(t - 1, c) # NaN /\ Col(t, c) # NaN
                /\ \A c \in LaterColumns(name) : Col(t, c) # NaN

\* a frame of three bars whose first bar is still in the warm-up of a
\* column its rule compares: a signal at bar 3 and none at bar 2
C12_Witness ==
    /\ rec.op = "generate_all_signals"
    /\ NumBars = 3
    /\ \E c \in data.columns \ {"Close"} : Col(1, c) = NaN
    /\ signals # <<>>
    /\ \A k \in DOMAIN signals : signals[k].date = 3

\* the six values the Bollinger rule reads at bars t-1 and t are defined
BandsDefined(t) ==
    \A c \in {"Close", "BB_Low", "BB_High"} :
        Col(t - 1, c) # NaN /\ Col(t, c) # NaN

\* close moves from at or below the lower band to above it
LowerBandBounce(t) ==
    /\ t >= 2 /\ BandsDefined(t)
    /\ Col(t - 1, "Close") <= Col(t - 1, "BB_Low")
    /\ Col(t, "Close") > Col(t, "BB_Low")

\* close moves from at or above the upper band to below it
UpperBandRejection(t) ==
    /\ t >= 2 /\ BandsDefined(t)
    /\ Col(t - 1, "Close") >= Col(t - 1, "BB_High")
    /\ Col(t, "Close") < Col(t, "BB_High")

BandFrame == {"Close", "BB_Low", "BB_High"} \subseteq data.columns

\* C13: a BUY "BB Lower Band Bounce" is emitted at bar t whenever
\* close[t-1] <= BB_Low[t-1] and close[t] > BB_Low[t], and a SELL "BB Upper
\* Band Rejection" whenever close[t-1] >= BB_High[t-1] and
\* close[t] < BB_High[t], each whether or not the other's condition holds.
C13_BandRulesIndependent ==
    (rec.op # "__init__" /\ BandFrame) =>
        \A t \in 2..NumBars :
            /\ LowerBandBounce(t) => CountAt("BB Lower Band Bounce", t) = 1
            /\ UpperBandRejection(t)
                  => CountAt("BB Upper Band Rejection", t) = 1

\* the four values the stochastic rule reads at bars t-1 and t are defined
StochasticDefined(t) ==
    \A c \in {"Stoch_K", "Stoch_D"} : Col(t - 1, c) # NaN /\ Col(t, c) # NaN

\* %K crosses above / below %D between bars t-1 and t
KCrossesAboveD(t) ==
    /\ t >= 2 /\ StochasticDefined(t)
    /\ Col(t - 1, "Stoch_K") <= Col(t - 1, "Stoch_D")
    /\ Col(t, "Stoch_K") > Col(t, "Stoch_D")

KCrossesBelowD(t) ==
    /\ t >= 2 /\ StochasticDefined(t)
    /\ Col(t - 1, "Stoch_K") >= Col(t - 1, "Stoch_D")
    /\ Col(t, "Stoch_K") < Col(t, "Stoch_D")

StochasticFrame == {"Stoch_K", "Stoch_D"} \subseteq data.columns

\* C14: a BUY (STRONG) is emitted at bar t if and only if
\* %K[t-1] <= %D[t-1], %K[t] > %D[t] and %K[t] < 20, and a SELL (STRONG) if
\* and only if %K[t-1] >= %D[t-1], %K[t] < %D[t] and %K[t] > 80, the four
\* values being defined; a crossover with %K[t] in [20, 80] emits nothing.
C14_StochasticInRegion ==
    (rec.op # "__init__" /\ StochasticFrame) =>
        /\ \A t \in 1..NumBars :
              /\ CountAt("Stochastic Bullish Crossover", t)
                    = IF KCrossesAboveD(t) /\ Col(t, "Stoch_K") < 20
                        THEN 1 ELSE 0
              /\ CountAt("Stochastic Bearish Crossover", t)
                    = IF KCrossesBelowD(t) /\ Col(t, "Stoch_K") > 80
                        THEN 1 ELSE 0
              /\ ( /\ (KCrossesAboveD(t) \/ KCrossesBelowD(t))
                    /\ Col(t, "Stoch_K") >= 20
                    /\ Col(t, "Stoch_K") <= 80 )
                    => \A k \in DOMAIN signals : signals[k].date # t
        /\ \A k \in DOMAIN signals :
              /\ signals[k].strength = "STRONG"
              /\ \/ /\ signals[k].signal = "Stochastic Bullish Crossover"
                    /\ signals[k].type = "BUY"
                 \/ /\ signals[k].signal = "Stochastic Bearish Crossover"
                    /\ signals[k].type = "SELL"

\* three bars: %K crosses above %D at 20, which emits nothing, then below
\* %D above 80, which emits a SELL
C14_Witness ==
    /\ rec.op = "generate_all_signals"
    /\ StochasticFrame
    /\ NumBars = 3
    /\ KCrossesAboveD(2) /\ Col(2, "Stoch_K") = 20
    /\ KCrossesBelowD(3) /\ Col(3, "Stoch_K") > 80
    /\ Len(signals) = 1
    /\ signals[1].type = "SELL" /\ signals[1].date = 3

---------------------------------------------------------------------------
(* TechnicalIndicators (src/stock_ai_analyst/technical_indicators.py) *)
(*                                                                         *)
(* The numbers of a frame built here are hundredths of a price unit.  The  *)
(* closes drawn are whole units, so the means over 20 and over 50 bars are *)
(* whole hundredths and the integer division below is exact.               *)

\* at most this many bars in a frame of closes
MaxCloses == 52

\* the periods add_moving_averages is called with (its default)
Periods == {20, 50, 200}

\* f'SMA_{period}'
SmaName(period) ==
    CASE period = 20 -> "SMA_20"
      [] period = 50 -> "SMA_50"
      [] period = 200 -> "SMA_200"

\* f'EMA_{period}'
EmaName(period) ==
    CASE period = 20 -> "EMA_20"
      [] period = 50 -> "EMA_50"
      [] period = 200 -> "EMA_200"

\* xs[from] + ... + xs[to]
RECURSIVE SumOver(_, _, _)
SumOver(xs, from, to) ==
    IF from > to THEN 0 ELSE xs[to] + SumOver(xs, from, to - 1)

\* a mean over the bars so far while the window is not full
RollingMean_Shrinking(xs, i, window) ==
    IF i < window
      THEN SumOver(xs, 1, i) \div i
      ELSE SumOver(xs, i - window + 1, i) \div window

\* Series.rolling(window=window).mean() at bar i: undefined until the
\* window is full
RollingMean(xs, i, window) ==
    IF i < window
      THEN NaN
      ELSE SumOver(xs, i - window + 1, i) \div window

\* Series.ewm(span=span, adjust=False).mean() at bar i, with
\* alpha = 2 / (span + 1); kept to a whole hundredth, rounding down, where
\* the float keeps 53 bits
RECURSIVE Ewm(_, _, _)
Ewm(xs, i, span) ==
    IF i = 1
      THEN xs[1]
      ELSE (2 * xs[i] + (span - 1) * Ewm(xs, i - 1, span)) \div (span + 1)

\* self.data after the loop of add_moving_averages over a frame f
WithMovingAverages(f) ==
    LET n == Len(f.rows)
        closes == [i \in 1..n |-> f.rows[i]["Close"]]
        added == {SmaName(period) : period \in Periods}
                     \cup {EmaName(period) : period \in Periods}
        columns == f.columns \cup added
        PeriodOf(c) ==
            CHOOSE period \in Periods : c \in {SmaName(period), EmaName(period)}
        Cell(i, c) ==
            IF c \notin added THEN f.rows[i][c]
            ELSE IF c = SmaName(PeriodOf(c))
              THEN RollingMean(closes, i, PeriodOf(c))
              ELSE Ewm(closes, i, PeriodOf(c))
    IN  [columns |-> columns,
         rows |-> [i \in 1..n |-> [c \in columns |-> Cell(i, c)]]]

\* add_moving_averages(): self.data['Close'] raises KeyError when the
\* frame has no such column; the method returns self.data
AddMovingAverages ==
    IF "Close" \in frame.columns
      THEN /\ frame' = WithMovingAverages(frame)
           /\ calc' = Returned("add_moving_averages", <<>>, None)
      ELSE /\ frame' = frame
           /\ calc' = Raised("add_moving_averages", <<>>, "KeyError")

\* the columns get_latest_values leaves out
Ohlcv == {"Open", "High", "Low", "Close", "Volume"}

\* get_latest_values(): the last row without the OHLCV columns
LatestValues(f) ==
    [c \in f.columns \ Ohlcv |-> f.rows[Len(f.rows)][c]]

\* a float held in a dictionary, as opposed to None
Some(x) == [none |-> FALSE, value |-> x]

\* latest.get(key)
Get(latest, key) ==
    IF key \in DOMAIN latest THEN Some(latest[key]) ELSE None

\* the dictionary get_indicator_summary builds
IndicatorSummary(f) ==
    LET latest == LatestValues(f)
    IN  [trend |-> [name \in {"SMA_20", "SMA_50", "SMA_200", "EMA_20", "ADX"}
                        |-> Get(latest, name)],
         momentum |-> [name \in {"RSI", "MACD", "MACD_Signal", "Stoch_K",
                                  "Stoch_D"} |-> Get(latest, name)],
         volatility |-> [name \in {"BB_Width", "ATR"} |-> Get(latest, name)],
         volume |-> [name \in {"OBV"} |-> Get(latest, name)]]

\* get_indicator_summary(): self.data.iloc[-1] raises IndexError on a frame
\* without rows
GetIndicatorSummary ==
    /\ calc' = IF frame.rows = <<>>
                 THEN Raised("get_indicator_summary", <<>>, "IndexError")
                 ELSE Returned("get_indicator_summary", <<>>,
                               IndicatorSummary(frame))
    /\ UNCHANGED frame

\* demo.py: the (category, name, value) lines printed for a summary, one
\* for each value that is not None
DemoPrints(summary) ==
    UNION {{<<category, name, summary[category][name].value>> :
               name \in {n \in DOMAIN summary[category] :
                             summary[category][n] # None}} :
           category \in DOMAIN summary}

---------------------------------------------------------------------------
(* The indicator frame as a state machine *)

\* slopes of a series of closes before and after its bend, in whole units
Slopes == {-1, 0, 1, 2}

\* the bar after which a series bends
Bends == {0, 25, 50}

Min(a, b) == IF a < b THEN a ELSE b

\* n closes from 100.00: slope a up to the bend j, slope b after it
Closes(a, b, j, n) ==
    [i \in 1..n |-> 10000 + 100 * (a * Min(i, j) + b * (i - Min(i, j)))]

\* the lengths of the series: none, one bar, and around fifty bars
Lengths == {0, 1} \cup ((MaxCloses - 3)..MaxCloses)

CloseFrames ==
    {[columns |-> {"Close"},
      rows |-> [i \in 1..n |-> [Close |-> Closes(a, b, j, n)[i]]]] :
        a \in Slopes, b \in Slopes, j \in Bends, n \in Lengths}

\* TechnicalIndicators(data): the frame is copied; no generator exists yet
InitIndicators ==
    /\ NoTracker
    /\ NoGenerator /\ NoFetches
    /\ frame \in CloseFrames
    /\ calc = Returned("__init__", <<>>, None)

AddMovingAveragesStep == AddMovingAverages /\ UNCHANGED <<pvars, svars, cvars>>

IndicatorSummaryStep == GetIndicatorSummary /\ UNCHANGED <<pvars, svars, cvars>>

\* SignalGenerator(tech.data): a generator over a copy of the frame
NewGeneratorStep ==
    /\ data' = frame
    /\ signals' = <<>>
    /\ rec' = [op |-> "__init__"]
    /\ UNCHANGED <<pvars, ivars, cvars>>

NextIndicators ==
    AddMovingAveragesStep \/ IndicatorSummaryStep \/ NewGeneratorStep
        \/ GenerateStep

\* a TechnicalIndicators over a series of closes, and generators over its
\* frame
SpecIndicators == InitIndicators /\ [][NextIndicators]_vars

---------------------------------------------------------------------------
(* Properties of the indicator frame *)

StrictlyIncreasing(xs) == \A i \in 1..(Len(xs) - 1) : xs[i] < xs[i + 1]

\* the closes of the generator's frame
DataCloses == [i \in 1..NumBars |-> Col(i, "Close")]

\* C15: over a strictly increasing series of closes, with SMA_20 and
\* SMA_50 the trailing means that are undefined until their window is
\* full, the scan emits no Death Cross and at most one Golden Cross.
C15_RisingSeriesNoDeathCross ==
    ( /\ rec.op = "generate_all_signals"
      /\ {"SMA_20", "SMA_50"} \subseteq data.columns ) =>
        /\ \A i \in 1..NumBars :
              /\ Col(i, "SMA_20") = NaN <=> i < 20
              /\ Col(i, "SMA_50") = NaN <=> i < 50
        /\ StrictlyIncreasing(DataCloses) =>
              /\ Cardinality(PlacesOf("Death Cross")) = 0
              /\ Cardinality(PlacesOf("Golden Cross")) <= 1

\* a rising series long enough for both averages to be defined at two
\* bars in a row, scanned
C15_Witness ==
    /\ rec.op = "generate_all_signals"
    /\ {"SMA_20", "SMA_50"} \subseteq data.columns
    /\ NumBars >= 51
    /\ StrictlyIncreasing(DataCloses)
    /\ Col(NumBars - 1, "SMA_50") # NaN
    /\ Col(NumBars, "SMA_20") > Col(NumBars, "SMA_50")
    /\ signals = <<>>

\* C17: get_indicator_summary reports None for every indicator whose
\* latest value is undefined, so that a consumer testing "value is not
\* None" never receives an undefined value as a number.
C17_UndefinedReportedAsNone ==
    (calc.op = "get_indicator_summary" /\ calc.raised = "none") =>
        /\ \A category \in DOMAIN calc.value :
              \A name \in DOMAIN calc.value[category] :
                  ( \/ name \notin frame.columns
                    \/ frame.rows[Len(frame.rows)][name] = NaN )
                      => calc.value[category][name] = None
        /\ \A line \in DemoPrints(calc.value) : line[3] # NaN

---------------------------------------------------------------------------
(* Floats of pandas Series arithmetic *)
(*                                                                         *)
(* A Series element is a rational <<n, d>> with d > 0, or NaN = <<0, 0>>,  *)
(* or an infinity <<1, 0>>, <<-1, 0>>: dividing by zero raises nothing     *)
(* there.  The sign of a zero is not kept; no result below depends on it.  *)

FNaN == <<0, 0>>
FInf == <<1, 0>>

IsNaN(a) == a = FNaN
IsFinite(a) == a[2] # 0

FNeg(a) == <<-a[1], a[2]>>

FAdd(a, b) ==
    IF IsNaN(a) \/ IsNaN(b) THEN FNaN
    ELSE IF ~IsFinite(a)
      THEN IF ~IsFinite(b) /\ b # a THEN FNaN ELSE a
    ELSE IF ~IsFinite(b) THEN b
    ELSE RAdd(a, b)

FSub(a, b) == FAdd(a, FNeg(b))

\* a * b for finite or undefined a, b
FMul(a, b) == IF IsNaN(a) \/ IsNaN(b) THEN FNaN ELSE RMul(a, b)

\* a division whose zero divisor yields an undefined value in every case
FDiv_ZeroIsNaN(a, b) ==
    IF IsNaN(a) \/ IsNaN(b) \/ ~IsFinite(a) \/ ~IsFinite(b) \/ b[1] = 0
      THEN FNaN
      ELSE RDiv(a, b)

FDiv(a, b) ==
    IF IsNaN(a) \/ IsNaN(b) THEN FNaN
    ELSE IF ~IsFinite(b)
      THEN IF IsFinite(a) THEN RZero ELSE FNaN
    ELSE IF ~IsFinite(a)
      THEN IF b[1] < 0 THEN FNeg(a) ELSE a
    ELSE IF b[1] = 0
      THEN IF a[1] = 0 THEN FNaN
           ELSE IF a[1] > 0 THEN FInf ELSE FNeg(FInf)
    ELSE RDiv(a, b)

\* a > b and a < b on a Series: False where either side is NaN
FGreater(a, b) ==
    /\ ~IsNaN(a) /\ ~IsNaN(b) /\ a # b
    /\ IF ~IsFinite(a) THEN a = FInf
       ELSE IF ~IsFinite(b) THEN b # FInf
       ELSE RLess(b, a)

FLess(a, b) == FGreater(b, a)

\* a value left as it is where fillna would replace it
FillNa_Keep(a, value) == a

\* Series.fillna(value)
FillNa(a, value) == IF IsNaN(a) THEN value ELSE a

\* the largest r in lo..hi with r * r <= n, by bisection
RECURSIVE ISqrtIn(_, _, _)
ISqrtIn(n, lo, hi) ==
    IF lo = hi THEN lo
    ELSE LET mid == (lo + hi + 1) \div 2
         IN  IF mid * mid <= n
               THEN ISqrtIn(n, mid, hi)
               ELSE ISqrtIn(n, lo, mid - 1)

\* the square root of a rational a >= 0, kept to a hundredth, rounding
\* down, where the float keeps 53 bits
FSqrt(a) ==
    LET n == (a[1] * 10000) \div a[2]
    IN  Rat(ISqrtIn(n, 0, IF n < 40000 THEN n ELSE 40000), 100)

Max(a, b) == IF a > b THEN a ELSE b

\* xs[from] + ... + xs[to] for rationals
RECURSIVE SumR(_, _, _)
SumR(xs, from, to) ==
    IF from > to THEN RZero ELSE RAdd(xs[to], SumR(xs, from, to - 1))

\* Series.rolling(window=window, min_periods=1).mean() at position i: the
\* mean of the values so far while the window is not full
ShrinkingMean(xs, i, window) ==
    LET from == Max(1, i - window + 1)
    IN  RDiv(SumR(xs, from, i), RInt(i - from + 1))

\* Series.rolling(window=window, min_periods=1).std() at position i: the
\* sample standard deviation, undefined for a single value
ShrinkingStd(xs, i, window) ==
    LET from == Max(1, i - window + 1)
        n == i - from + 1
        mean == ShrinkingMean(xs, i, window)
        sq == [j \in 1..i |-> RMul(RSub(xs[j], mean), RSub(xs[j], mean))]
    IN  IF n < 2
          THEN FNaN
          ELSE FSqrt(RDiv(SumR(sq, from, i), RInt(n - 1)))

\* a list of integers as a Series of floats
Series(list) == [i \in 1..Len(list) |-> RInt(list[i])]

---------------------------------------------------------------------------
(* IndicatorsService (src/services/indicators_service.py) *)

\* what a calculator call leaves: its result, and "error" where it caught
\* an exception and logged it
Answered(op, args, value, logged) ==
    [op |-> op, args |-> args, value |-> value, raised |-> "none",
     logged |-> logged]

\* delta = df['price'].diff()
Delta(prices, i) ==
    IF i = 1 THEN FNaN ELSE RInt(prices[i] - prices[i - 1])

\* delta.where(delta > 0, 0)
Gains(prices) ==
    [i \in 1..Len(prices) |->
        IF FGreater(Delta(prices, i), RZero) THEN Delta(prices, i) ELSE RZero]

\* -delta.where(delta < 0, 0)
Losses(prices) ==
    [i \in 1..Len(prices) |->
        IF FLess(Delta(prices, i), RZero)
          THEN FNeg(Delta(prices, i)) ELSE RZero]

\* gain and loss, the rolling means, at position i
AverageGain(prices, i, window) == ShrinkingMean(Gains(prices), i, window)
AverageLoss(prices, i, window) == ShrinkingMean(Losses(prices), i, window)

\* rsi = 100 - (100 / (1 + rs)) with rs = gain / loss
RsiAt(prices, i, window) ==
    LET rs == FDiv(AverageGain(prices, i, window),
                   AverageLoss(prices, i, window))
    IN  FSub(RInt(100), FDiv(RInt(100), FAdd(RInt(1), rs)))

\* calculate_rsi(prices, window): (rsi.fillna(50), overbought, oversold)
CalculateRsi(prices, window) ==
    LET n == Len(prices)
        rsi == [i \in 1..n |-> RsiAt(prices, i, window)]
    IN  <<[i \in 1..n |-> FillNa(rsi[i], RInt(50))],
          [i \in 1..n |-> FGreater(rsi[i], RInt(70))],
          [i \in 1..n |-> FLess(rsi[i], RInt(30))]>>

\* num_std of calculate_bollinger_bands (its default)
NumStd == 2

\* calculate_bollinger_bands(prices, window): (upper, middle, lower), each
\* with fillna(0)
CalculateBollingerBands(prices, window) ==
    LET n == Len(prices)
        xs == Series(prices)
        sma == [i \in 1..n |-> ShrinkingMean(xs, i, window)]
        std == [i \in 1..n |-> ShrinkingStd(xs, i, window)]
        upper_band == [i \in 1..n |-> FAdd(sma[i], FMul(std[i], RInt(NumStd)))]
        lower_band == [i \in 1..n |-> FSub(sma[i], FMul(std[i], RInt(NumStd)))]
    IN  <<[i \in 1..n |-> FillNa(upper_band[i], RZero)],
          [i \in 1..n |-> FillNa(sma[i], RZero)],
          [i \in 1..n |-> FillNa(lower_band[i], RZero)]>>

\* calculate_rsi and calculate_bollinger_bands as calls
CalculateRsiCall(prices, window) ==
    Answered("calculate_rsi", <<window>>, CalculateRsi(prices, window),
             "none")

CalculateBollingerBandsCall(prices, window) ==
    Answered("calculate_bollinger_bands", <<window>>,
             CalculateBollingerBands(prices, window), "none")

---------------------------------------------------------------------------
(* MomentumIndicatorsService (src/services/momentum_indicators_service.py) *)
(*                                                                         *)
(* These calculators work on Python numbers, where a division by zero      *)
(* raises ZeroDivisionError; the try/except of each calculator catches it, *)
(* logs an error and returns an empty result.                              *)

\* the outcome of a Python division by zero, in the place of its value
ZeroDivisionError == <<0, -1>>

Raises(values) == \E k \in DOMAIN values : values[k] = ZeroDivisionError

\* smooth_k and smooth_d of calculate_stochastic (their defaults)
SmoothK == 3
SmoothD == 3

\* min(xs[i-window+1:i+1]) and max(xs[i-window+1:i+1]), bars numbered from 1
RECURSIVE WindowMin(_, _, _)
WindowMin(xs, i, window) ==
    IF window = 1 THEN xs[i]
    ELSE Min(xs[i], WindowMin(xs, i - 1, window - 1))

RECURSIVE WindowMax(_, _, _)
WindowMax(xs, i, window) ==
    IF window = 1 THEN xs[i]
    ELSE Max(xs[i], WindowMax(xs, i - 1, window - 1))

\* %K computed without the test for an empty range
KValue_Unguarded(price, lowest_low, highest_high) ==
    IF highest_high - lowest_low = 0
      THEN ZeroDivisionError
      ELSE RMul(Rat(price - lowest_low, highest_high - lowest_low), RInt(100))

\* k_value of one window
KValue(price, lowest_low, highest_high) ==
    IF highest_high - lowest_low = 0
      THEN RInt(50)
      ELSE RMul(Rat(price - lowest_low, highest_high - lowest_low), RInt(100))

\* k_line: one raw %K for each full window
KLine(prices, window) ==
    [k \in 1..(Len(prices) - window + 1) |->
        LET i == k + window - 1
        IN  KValue(prices[i], WindowMin(prices, i, window),
                   WindowMax(prices, i, window))]

\* pd.Series(xs).rolling(window=window).mean() at position i: undefined
\* unless the window is full of defined values
StrictMean(xs, i, window) ==
    IF i < window \/ \E j \in (i - window + 1)..i : IsNaN(xs[j])
      THEN FNaN
      ELSE RDiv(SumR(xs, i - window + 1, i), RInt(window))

\* MomentumIndicatorsService.calculate_stochastic(prices, window)
MomentumStochastic(prices, window) ==
    LET op == "momentum.calculate_stochastic"
        k_line == KLine(prices, window)
        k_smooth == [i \in 1..Len(k_line) |-> StrictMean(k_line, i, SmoothK)]
        d_line == [i \in 1..Len(k_line) |-> StrictMean(k_smooth, i, SmoothD)]
    IN  IF Len(prices) < window
          THEN Answered(op, <<window>>, <<<<>>, <<>>>>, "none")
        ELSE IF Raises(k_line)
          THEN Answered(op, <<window>>, <<<<>>, <<>>>>, "error")
        ELSE IF Len(k_line) < SmoothK
          THEN Answered(op, <<window>>, <<k_line, <<>>>>, "none")
        ELSE IF Len(k_smooth) < SmoothD
          THEN Answered(op, <<window>>, <<k_smooth, <<>>>>, "none")
        ELSE Answered(op, <<window>>, <<k_smooth, d_line>>, "info")

\* wr_value of one window
WilliamsValue(close, lowest_low, highest_high) ==
    IF highest_high - lowest_low = 0
      THEN RInt(-50)
      ELSE RMul(RInt(-100),
                Rat(highest_high - close, highest_high - lowest_low))

\* MomentumIndicatorsService.calculate_williams_r(highs, lows, closes, window)
CalculateWilliamsR(highs, lows, closes, window) ==
    LET op == "calculate_williams_r"
        williams_r ==
            [k \in 1..(Len(closes) - window + 1) |->
                LET i == k + window - 1
                IN  WilliamsValue(closes[i], WindowMin(lows, i, window),
                                  WindowMax(highs, i, window))]
    IN  IF Len(closes) < window
          THEN Answered(op, <<window>>, <<>>, "none")
        ELSE IF Raises(williams_r)
          THEN Answered(op, <<window>>, <<>>, "error")
        ELSE Answered(op, <<window>>, williams_r, "info")

\* (highs[j] + lows[j] + closes[j]) / 3
TypicalPrice(highs, lows, closes, j) == Rat(highs[j] + lows[j] + closes[j], 3)

\* cci_value of one window; 0.015 is 3/200
CciValue(typical_price, sma, mad) ==
    IF mad = RZero
      THEN RZero
      ELSE RDiv(RSub(typical_price, sma), RMul(<<3, 200>>, mad))

\* sma and mad of the typical prices of the window that ends at bar i
CciMean(typical, i, window) ==
    RDiv(SumR(typical, i - window + 1, i), RInt(window))

CciDeviation(typical, i, window) ==
    LET sma == CciMean(typical, i, window)
        dev == [j \in 1..i |-> RAbs(RSub(typical[j], sma))]
    IN  RDiv(SumR(dev, i - window + 1, i), RInt(window))

\* MomentumIndicatorsService.calculate_cci(highs, lows, closes, window)
CalculateCci(highs, lows, closes, window) ==
    LET op == "calculate_cci"
        typical == [j \in 1..Len(closes) |->
                       TypicalPrice(highs, lows, closes, j)]
        cci == [k \in 1..(Len(closes) - window + 1) |->
                   LET i == k + window - 1
                   IN  CciValue(typical[i], CciMean(typical, i, window),
                                CciDeviation(typical, i, window))]
    IN  IF Len(closes) < window
          THEN Answered(op, <<window>>, <<>>, "none")
        ELSE IF Raises(cci)
          THEN Answered(op, <<window>>, <<>>, "error")
        ELSE Answered(op, <<window>>, cci, "info")

---------------------------------------------------------------------------
(* VolumeIndicatorsService (src/services/volume_indicators_service.py) *)

\* the money flow of bar i + 1 where its typical price rose (positive_mf[i])
\* and where it did not (negative_mf[i]); i counts from 1
PositiveMf(typical, volumes) ==
    [i \in 1..(Len(typical) - 1) |->
        IF RLess(typical[i], typical[i + 1])
          THEN RMul(typical[i + 1], RInt(volumes[i + 1]))
          ELSE RZero]

NegativeMf(typical, volumes) ==
    [i \in 1..(Len(typical) - 1) |->
        IF RLess(typical[i], typical[i + 1])
          THEN RZero
          ELSE RMul(typical[i + 1], RInt(volumes[i + 1]))]

\* an index of 0 where no money flowed out
MfiValue_NeutralZero(pos_sum, neg_sum) ==
    IF neg_sum = RZero
      THEN RZero
      ELSE RSub(RInt(100),
                RDiv(RInt(100), RAdd(RInt(1), RDiv(pos_sum, neg_sum))))

\* mfi_value of one window
MfiValue(pos_sum, neg_sum) ==
    IF neg_sum = RZero
      THEN RInt(100)
      ELSE RSub(RInt(100),
                RDiv(RInt(100), RAdd(RInt(1), RDiv(pos_sum, neg_sum))))

\* VolumeIndicatorsService.calculate_mfi(highs, lows, closes, volumes, window)
CalculateMfi(highs, lows, closes, volumes, window) ==
    LET op == "calculate_mfi"
        typical == [j \in 1..Len(closes) |->
                       TypicalPrice(highs, lows, closes, j)]
        positive_mf == PositiveMf(typical, volumes)
        negative_mf == NegativeMf(typical, volumes)
        mfi == [k \in 1..(Len(positive_mf) - window + 1) |->
                   LET i == k + window - 1
                   IN  MfiValue(SumR(positive_mf, i - window + 1, i),
                                SumR(negative_mf, i - window + 1, i))]
    IN  IF Len(closes) < window + 1
          THEN Answered(op, <<window>>, <<>>, "none")
        ELSE IF Raises(mfi)
          THEN Answered(op, <<window>>, <<>>, "error")
        ELSE Answered(op, <<window>>, mfi, "info")

---------------------------------------------------------------------------
(* The indicator calculators as a state machine *)

\* the windows the calculators are called with
Windows == {1, 2, 3}

\* bars (high, low, close, volume): one without range, a higher one, one
\* higher still, a lower one on no volume, and one that closes above its
\* high
OhlcvRows ==
    {[High |-> c[1], Low |-> c[2], Close |-> c[3], Volume |-> c[4]] :
        c \in {<<10, 10, 10, 5>>, <<12, 10, 12, 5>>, <<14, 11, 13, 3>>,
               <<9, 7, 8, 0>>, <<10, 8, 11, 5>>}}

\* df[column].tolist()
Column(f, column) == [i \in 1..Len(f.rows) |-> f.rows[i][column]]

\* the frame whose columns are handed to the calculators
InitServices ==
    /\ NoTracker
    /\ NoGenerator /\ NoFetches
    /\ frame \in FramesUpTo(MaxPrices, {"High", "Low", "Close", "Volume"},
                            OhlcvRows)
    /\ calc = Returned("__init__", <<>>, None)

CalculateRsiStep ==
    /\ \E window \in Windows :
          calc' = CalculateRsiCall(Column(frame, "Close"), window)
    /\ UNCHANGED <<frame, pvars, svars, cvars>>

CalculateBollingerBandsStep ==
    /\ \E window \in Windows :
          calc' = CalculateBollingerBandsCall(Column(frame, "Close"), window)
    /\ UNCHANGED <<frame, pvars, svars, cvars>>

MomentumStochasticStep ==
    /\ \E window \in Windows :
          calc' = MomentumStochastic(Column(frame, "Close"), window)
    /\ UNCHANGED <<frame, pvars, svars, cvars>>

CalculateWilliamsRStep ==
    /\ \E window \in Windows :
          calc' = CalculateWilliamsR(Column(frame, "High"),
                      Column(frame, "Low"), Column(frame, "Close"), window)
    /\ UNCHANGED <<frame, pvars, svars, cvars>>

CalculateCciStep ==
    /\ \E window \in Windows :
          calc' = CalculateCci(Column(frame, "High"), Column(frame, "Low"),
                      Column(frame, "Close"), window)
    /\ UNCHANGED <<frame, pvars, svars, cvars>>

CalculateMfiStep ==
    /\ \E window \in Windows :
          calc' = CalculateMfi(Column(frame, "High"), Column(frame, "Low"),
                      Column(frame, "Close"), Column(frame, "Volume"), window)
    /\ UNCHANGED <<frame, pvars, svars, cvars>>

NextServices ==
    CalculateRsiStep \/ CalculateBollingerBandsStep
        \/ MomentumStochasticStep \/ CalculateWilliamsRStep
        \/ CalculateCciStep \/ CalculateMfiStep

\* the indicator calculators applied to the columns of an OHLCV frame
SpecServices == InitServices /\ [][NextServices]_vars

---------------------------------------------------------------------------
(* Properties of the indicator calculators *)

\* the lists the last call was given, and its window
Highs == Column(frame, "High")
Lows == Column(frame, "Low")
Prices == Column(frame, "Close")
Volumes == Column(frame, "Volume")
Window == calc.args[1]

\* C16: calculate_bollinger_bands returns three lists of the input's
\* length with upper[i] >= middle[i] >= lower[i] at every index, index 0
\* (a window of a single price) included.
C16_BandsOrdered ==
    calc.op = "calculate_bollinger_bands" =>
        /\ \A b \in 1..3 : Len(calc.value[b]) = Len(Prices)
        /\ \A i \in 1..Len(Prices) :
              /\ RLeq(calc.value[2][i], calc.value[1][i])
              /\ RLeq(calc.value[3][i], calc.value[2][i])

\* the bars whose price changes enter the rolling means at position i
ChangesAt(i) == Max(2, i - Window + 1)..i

\* no price fell / some price rose within the window that ends at i
NoFall(i) == \A j \in ChangesAt(i) : Prices[j] >= Prices[j - 1]
SomeRise(i) == \E j \in ChangesAt(i) : Prices[j] > Prices[j - 1]

\* C19 as stated: calculate_rsi returns 50 at every position where the
\* average loss over the window is zero, also where the average gain is
\* positive.
C19_ZeroLossIsFifty ==
    calc.op = "calculate_rsi" =>
        \A i \in 1..Len(Prices) : NoFall(i) => calc.value[1][i] = RInt(50)

\* C19 amended: where the average loss over the window is zero,
\* calculate_rsi returns 100 if the average gain is positive and 50 if the
\* average gain is zero too; such a position is flagged overbought exactly
\* when it holds 100, and never oversold.
C19_ZeroLossIsHundredOrFifty ==
    calc.op = "calculate_rsi" =>
        /\ \A b \in 1..3 : Len(calc.value[b]) = Len(Prices)
        /\ \A i \in 1..Len(Prices) :
              NoFall(i) =>
                  /\ calc.value[1][i]
                        = IF SomeRise(i) THEN RInt(100) ELSE RInt(50)
                  /\ calc.value[2][i] = SomeRise(i)
                  /\ calc.value[3][i] = FALSE

\* three prices, window 2: nothing to compare at the first, a rise at
\* the second, no change within the window of the third
C19_Witness ==
    /\ calc.op = "calculate_rsi"
    /\ Window = 2
    /\ Len(Prices) = 3
    /\ Prices[1] < Prices[2] /\ Prices[2] = Prices[3]
    /\ calc.value[1] = <<RInt(50), RInt(100), RInt(100)>>

\* the money that flowed out in the window of the k-th index
NegativeSum(k) ==
    SumR(NegativeMf([j \in 1..Len(Prices) |->
                        TypicalPrice(Highs, Lows, Prices, j)], Volumes),
         k, k + Window - 1)

PositiveSum(k) ==
    SumR(PositiveMf([j \in 1..Len(Prices) |->
                        TypicalPrice(Highs, Lows, Prices, j)], Volumes),
         k, k + Window - 1)

\* C18 as stated: calculate_mfi returns 0 at every position whose negative
\* money-flow sum is 0.
C18_NoOutflowIsZero ==
    calc.op = "calculate_mfi" =>
        \A k \in DOMAIN calc.value :
            NegativeSum(k) = RZero => calc.value[k] = RZero

\* C18 amended: calculate_mfi returns 100 at every position whose negative
\* money-flow sum is 0, rather than dividing by zero; it returns one index
\* for each window of the money flows and catches no exception.
C18_NoOutflowIsHundred ==
    calc.op = "calculate_mfi" =>
        /\ calc.logged # "error"
        /\ Len(calc.value)
              = IF Len(Prices) < Window + 1 THEN 0 ELSE Len(Prices) - Window
        /\ \A k \in DOMAIN calc.value :
              NegativeSum(k) = RZero => calc.value[k] = RInt(100)

\* an index of 100 over a window with inflow only, beside an index of a
\* window with outflow
C18_Witness ==
    /\ calc.op = "calculate_mfi"
    /\ \E k \in DOMAIN calc.value :
          /\ NegativeSum(k) = RZero
          /\ RLess(RZero, PositiveSum(k))
          /\ calc.value[k] = RInt(100)
    /\ \E k \in DOMAIN calc.value :
          /\ NegativeSum(k) # RZero
          /\ RLess(calc.value[k], RInt(100))

\* the bars of the k-th window
BarsOf(k) == k..(k + Window - 1)

\* the raw %K of each window of the prices
RawK == KLine(Prices, Window)

Within(x, lo, hi) == RLeq(RInt(lo), x) /\ RLeq(x, RInt(hi))

---------------------------------------------------------------------------
(* TrendIndicatorsService (src/services/trend_indicators_service.py) *)
(*                                                                         *)
(* The lists handed to these calculators are the columns of one frame, so  *)
(* they have one length; bars are numbered from 1.                         *)

\* a true range that is the bar's own range only
TrueRange_OwnRange(highs, lows, closes, i) == highs[i] - lows[i]

\* tr_value of bar i >= 2
TrueRange(highs, lows, closes, i) ==
    Max(highs[i] - lows[i],
        Max(Abs(highs[i] - closes[i - 1]), Abs(lows[i] - closes[i - 1])))

\* tr: one true range for each bar but the first
TrueRanges(highs, lows, closes) ==
    [k \in 1..(Len(closes) - 1) |-> TrueRange(highs, lows, closes, k + 1)]

\* plus_dm and minus_dm: the directional movement into each bar but the
\* first
PlusDm(highs, lows) ==
    [k \in 1..(Len(highs) - 1) |->
        LET up_move == highs[k + 1] - highs[k]
            down_move == lows[k] - lows[k + 1]
        IN  IF up_move > down_move /\ up_move > 0 THEN up_move ELSE 0]

MinusDm(highs, lows) ==
    [k \in 1..(Len(highs) - 1) |->
        LET up_move == highs[k + 1] - highs[k]
            down_move == lows[k] - lows[k + 1]
        IN  IF up_move > down_move /\ up_move > 0 THEN 0
            ELSE IF down_move > up_move /\ down_move > 0 THEN down_move
            ELSE 0]

\* tr_sum, plus_dm_sum, minus_dm_sum at position k >= window: the sum of
\* the first window, then the oldest value taken out and the newest added
RECURSIVE SlidingSum(_, _, _)
SlidingSum(xs, k, window) ==
    IF k = window
      THEN SumOver(xs, 1, window)
      ELSE SlidingSum(xs, k - 1, window) - xs[k - window] + xs[k]

\* plus_di_val, minus_di_val
DiValue(dm_sum, tr_sum) ==
    IF tr_sum # 0 THEN RMul(RInt(100), Rat(dm_sum, tr_sum)) ELSE RZero

\* dx
DxValue(plus_di_val, minus_di_val) ==
    LET di_sum == RAdd(plus_di_val, minus_di_val)
    IN  IF di_sum # RZero
          THEN RDiv(RMul(RInt(100), RAbs(RSub(plus_di_val, minus_di_val))),
                    di_sum)
          ELSE RZero

\* adx after n values were appended: dx itself while fewer than `window`
\* values are in the list, smoothed after them
RECURSIVE AdxValues(_, _, _)
AdxValues(dx, n, window) ==
    IF n = 0
      THEN <<>>
      ELSE LET adx == AdxValues(dx, n - 1, window)
           IN  Append(adx,
                      IF Len(adx) < window
                        THEN dx[n]
                        ELSE RDiv(RAdd(RMul(adx[n - 1], RInt(window - 1)),
                                       dx[n]),
                                  RInt(window)))

\* TrendIndicatorsService.calculate_adx(highs, lows, closes, window)
CalculateAdx(highs, lows, closes, window) ==
    LET op == "calculate_adx"
        tr == TrueRanges(highs, lows, closes)
        plus_dm == PlusDm(highs, lows)
        minus_dm == MinusDm(highs, lows)
        count == Len(tr) - window + 1
        tr_sum == [k \in 1..count |-> SlidingSum(tr, k + window - 1, window)]
        plus_di ==
            [k \in 1..count |->
                DiValue(SlidingSum(plus_dm, k + window - 1, window),
                        tr_sum[k])]
        minus_di ==
            [k \in 1..count |->
                DiValue(SlidingSum(minus_dm, k + window - 1, window),
                        tr_sum[k])]
        dx == [k \in 1..count |-> DxValue(plus_di[k], minus_di[k])]
        adx == AdxValues(dx, count, window)
    IN  IF Len(closes) < window + 1
          THEN Answered(op, <<window>>, <<<<>>, <<>>, <<>>>>, "none")
          ELSE Answered(op, <<window>>, <<adx, plus_di, minus_di>>, "info")

\* multiplier of calculate_supertrend (its default)
Multiplier == 3

\* a <= b on floats: False where either side is NaN
FLeq(a, b) == (a = b /\ ~IsNaN(a)) \/ FLess(a, b)

\* upper_band and lower_band of bar b >= 2: the rolling mean of hl2 at the
\* bar, and the rolling mean of the true ranges at the bar before the last
\* one it covers; undefined until both windows are full
UpperBand(hl2, tr, b, window) ==
    FAdd(StrictMean(hl2, b, window),
         FMul(RInt(Multiplier), StrictMean(tr, b - 1, window)))

LowerBand(hl2, tr, b, window) ==
    FSub(StrictMean(hl2, b, window),
         FMul(RInt(Multiplier), StrictMean(tr, b - 1, window)))

\* the label of a bar, and the value appended to supertrend for it
TrendLabel(close, upper_band) ==
    IF FLeq(RInt(close), upper_band) THEN "down" ELSE "up"

SupertrendValue(close, upper_band, lower_band) ==
    IF FLeq(RInt(close), upper_band) THEN upper_band ELSE lower_band

\* TrendIndicatorsService.calculate_supertrend(highs, lows, closes, window)
\* with the default multiplier; one entry for each bar but the first
CalculateSupertrend(highs, lows, closes, window) ==
    LET op == "calculate_supertrend"
        hl2 == [j \in 1..Len(highs) |-> Rat(highs[j] + lows[j], 2)]
        tr == Series(TrueRanges(highs, lows, closes))
        upper == [k \in 1..Len(tr) |-> UpperBand(hl2, tr, k + 1, window)]
        lower == [k \in 1..Len(tr) |-> LowerBand(hl2, tr, k + 1, window)]
        supertrend ==
            [k \in 1..Len(tr) |->
                SupertrendValue(closes[k + 1], upper[k], lower[k])]
        trend == [k \in 1..Len(tr) |-> TrendLabel(closes[k + 1], upper[k])]
    IN  IF Len(closes) < window
          THEN Answered(op, <<window>>, <<<<>>, <<>>>>, "none")
          ELSE Answered(op, <<window>>, <<supertrend, trend>>, "info")

\* the windows of calculate_ichimoku
TenkanBars == 9
KijunBars == 26
SenkouBars == 52

\* (max(highs[b-w+1 .. b]) + min(lows[b-w+1 .. b])) / 2
Midpoint(highs, lows, b, w) ==
    Rat(WindowMax(highs, b, w) + WindowMin(lows, b, w), 2)

\* tenkan, kijun and senkou_b: one midpoint for each bar that ends a full
\* window, so entry k of a line with window w belongs to bar k + w - 1
MidpointLine(highs, lows, w) ==
    [k \in 1..(Len(highs) - w + 1) |-> Midpoint(highs, lows, k + w - 1, w)]

\* senkou_a: entry k of tenkan with entry k of kijun
SenkouA(tenkan, kijun) ==
    [k \in 1..Len(kijun) |-> RDiv(RAdd(tenkan[k], kijun[k]), RInt(2))]

\* TrendIndicatorsService.calculate_ichimoku(highs, lows, closes); {} is
\* the empty function
CalculateIchimoku(highs, lows, closes) ==
    LET op == "calculate_ichimoku"
        tenkan == MidpointLine(highs, lows, TenkanBars)
        kijun == MidpointLine(highs, lows, KijunBars)
    IN  IF Len(closes) < SenkouBars
          THEN Answered(op, <<>>, <<>>, "none")
          ELSE Answered(op, <<>>,
                   [tenkan |-> tenkan,
                    kijun |-> kijun,
                    senkou_a |-> SenkouA(tenkan, kijun),
                    senkou_b |-> MidpointLine(highs, lows, SenkouBars),
                    chikou |-> SubSeq(closes, 1, Len(closes) - KijunBars)],
                   "info")

---------------------------------------------------------------------------
(* VolatilityIndicatorsService                                             *)
(* (src/services/volatility_indicators_service.py)                         *)

\* an average that adds the new true range to the previous value unweighted
AtrValues_Unweighted(tr, n, window) ==
    [k \in 1..n |->
        IF k = 1
          THEN Rat(SumOver(tr, 1, window), window)
          ELSE Rat(SumOver(tr, 1, window) + tr[window + k - 1], window)]

\* atr after n >= 1 values were appended: the mean of the first `window`
\* true ranges, then the previous value weighted window - 1 to 1 against
\* the next true range
RECURSIVE AtrValues(_, _, _)
AtrValues(tr, n, window) ==
    IF n = 1
      THEN <<Rat(SumOver(tr, 1, window), window)>>
      ELSE LET atr == AtrValues(tr, n - 1, window)
           IN  Append(atr,
                      RDiv(RAdd(RMul(atr[n - 1], RInt(window - 1)),
                                RInt(tr[window + n - 1])),
                           RInt(window)))

\* VolatilityIndicatorsService.calculate_atr(highs, lows, closes, window);
\* its true ranges are computed as those of calculate_adx
CalculateAtr(highs, lows, closes, window) ==
    LET op == "calculate_atr"
        tr == TrueRanges(highs, lows, closes)
        atr == AtrValues(tr, Len(tr) - window + 1, window)
    IN  IF Len(closes) < window + 1
          THEN Answered(op, <<window>>, <<>>, "none")
          ELSE Answered(op, <<window>>, atr, "info")

---------------------------------------------------------------------------
(* The trend and volatility calculators as a state machine *)

\* the sample of src/test_indicators.py: 16 bars rising by 1, each closing
\* at its high one above its low, and the window it is run with
TestBars == 16
TestWindow == 14

TestFrame ==
    [columns |-> {"High", "Low", "Close"},
     rows |-> [i \in 1..TestBars |->
                  [High |-> 99 + i, Low |-> 98 + i, Close |-> 99 + i]]]

\* the bars of OhlcvRows without their volume
OhlcRows ==
    {[High |-> r.High, Low |-> r.Low, Close |-> r.Close] : r \in OhlcvRows}

\* bars of range 2.00 around the closes of a bending series, in hundredths
TrendingFrames ==
    {[columns |-> {"High", "Low", "Close"},
      rows |-> [i \in 1..n |->
                   [High |-> Closes(a, b, j, n)[i] + 100,
                    Low |-> Closes(a, b, j, n)[i] - 100,
                    Close |-> Closes(a, b, j, n)[i]]]] :
        a \in Slopes, b \in Slopes, j \in Bends,
        n \in (MaxCloses - 2)..MaxCloses}

\* the windows the calculators are called with
TrendWindows == Windows \cup {TestWindow}

\* the frame whose columns are handed to the calculators
InitTrend ==
    /\ NoTracker
    /\ NoGenerator /\ NoFetches
    /\ frame \in FramesUpTo(MaxPrices, {"High", "Low", "Close"}, OhlcRows)
                    \cup {TestFrame}
    /\ calc = Returned("__init__", <<>>, None)

CalculateAdxStep ==
    /\ \E window \in TrendWindows :
          calc' = CalculateAdx(Column(frame, "High"), Column(frame, "Low"),
                      Column(frame, "Close"), window)
    /\ UNCHANGED <<frame, pvars, svars, cvars>>

CalculateSupertrendStep ==
    /\ \E window \in TrendWindows :
          calc' = CalculateSupertrend(Column(frame, "High"),
                      Column(frame, "Low"), Column(frame, "Close"), window)
    /\ UNCHANGED <<frame, pvars, svars, cvars>>

CalculateIchimokuStep ==
    /\ calc' = CalculateIchimoku(Column(frame, "High"), Column(frame, "Low"),
                   Column(frame, "Close"))
    /\ UNCHANGED <<frame, pvars, svars, cvars>>

CalculateAtrStep ==
    /\ \E window \in TrendWindows :
          calc' = CalculateAtr(Column(frame, "High"), Column(frame, "Low"),
                      Column(frame, "Close"), window)
    /\ UNCHANGED <<frame, pvars, svars, cvars>>

NextTrend ==
    CalculateAdxStep \/ CalculateSupertrendStep \/ CalculateIchimokuStep
        \/ CalculateAtrStep

\* the trend and volatility calculators applied to the columns of a short
\* frame
SpecTrend == InitTrend /\ [][NextTrend]_vars

\* calculate_ichimoku applied to frames of around 52 bars
InitIchimoku ==
    /\ NoTracker
    /\ NoGenerator /\ NoFetches
    /\ frame \in TrendingFrames
    /\ calc = Returned("__init__", <<>>, None)

SpecIchimoku == InitIchimoku /\ [][CalculateIchimokuStep]_vars

---------------------------------------------------------------------------
(* Properties of the trend and volatility calculators *)

\* every bar closes inside its own range
ClosesInRange ==
    \A i \in 1..Len(Prices) : Lows[i] <= Prices[i] /\ Prices[i] <= Highs[i]

Ranges == TrueRanges(Highs, Lows, Prices)

BandOf(b) ==
    UpperBand([j \in 1..Len(Highs) |-> Rat(Highs[j] + Lows[j], 2)],
              Series(Ranges), b, Window)

\* C24: calculate_supertrend labels a bar 'up' only where its close is
\* strictly above a defined upper band and 'down' otherwise; a bar whose
\* band is still undefined is never labelled 'up' and never contributes an
\* undefined supertrend value.
C24_UpOnlyAboveDefinedBand ==
    calc.op = "calculate_supertrend" =>
        LET supertrend == calc.value[1]
            trend == calc.value[2]
        IN  \A k \in 1..Len(trend) :
                /\ trend[k] = "up" <=>
                      (~IsNaN(BandOf(k + 1))
                          /\ FLess(BandOf(k + 1), RInt(Prices[k + 1])))
                /\ trend[k] \in {"up", "down"}
                /\ ~IsNaN(supertrend[k])

\* the average of the 9-bar and the 26-bar midpoint whose windows end at
\* bar b
SameBarAverage(b) ==
    RDiv(RAdd(Midpoint(Highs, Lows, b, TenkanBars),
              Midpoint(Highs, Lows, b, KijunBars)),
         RInt(2))

\* C25: each Senkou A value of calculate_ichimoku is the average of the
\* Tenkan and the Kijun value of one bar: the 9-bar and the 26-bar midpoint
\* it combines have windows that end at the same bar of the input.
C25_SenkouASameBar ==
    (calc.op = "calculate_ichimoku" /\ calc.value # <<>>) =>
        \A i \in 1..Len(calc.value.senkou_a) :
            \E b \in KijunBars..Len(Prices) :
                calc.value.senkou_a[i] = SameBarAverage(b)

---------------------------------------------------------------------------
(* Further properties of the signal generator *)

\* C23: the signals a recommendation returns (recent_signals) are the ones
\* its scores were summed over: the strength weights of the returned BUY
\* signals add up to buy_score, those of the returned SELL signals to
\* sell_score.
C23_ReturnedSignalsAreScored ==
    Recommended =>
        /\ Score(rec.value.recent_signals, "BUY") = rec.value.buy_score
        /\ Score(rec.value.recent_signals, "SELL") = rec.value.sell_score

\* the detection pass that emits a signal of this name
PassOf(name) ==
    CASE name \in {"Golden Cross", "Death Cross"} -> 1
      [] name \in {"RSI Oversold Recovery", "RSI Overbought Correction"} -> 2
      [] name \in {"MACD Bullish Crossover", "MACD Bearish Crossover"} -> 3
      [] name \in {"BB Lower Band Bounce", "BB Upper Band Rejection"} -> 4
      [] name \in {"Stochastic Bullish Crossover",
                   "Stochastic Bearish Crossover"} -> 5
      [] name \in {"Strong Uptrend Emerging",
                   "Strong Downtrend Emerging"} -> 6

\* the passes follow one another, and inside a pass the bars ascend
\* strictly, so a pass has at most one signal at a bar
InPassOrder(sigs) ==
    \A i, j \in DOMAIN sigs :
        i < j =>
            \/ PassOf(sigs[i].signal) < PassOf(sigs[j].signal)
            \/ /\ PassOf(sigs[i].signal) = PassOf(sigs[j].signal)
               /\ sigs[i].date < sigs[j].date

\* C26: generate_all_signals returns the generator's list, which after the
\* first call of any method stays what that call made it: further calls of
\* generate_all_signals, get_latest_signals and get_current_recommendation
\* leave it unchanged (nothing is duplicated), and it is in detection-pass
\* order with ascending bars, at most one signal per rule per bar.
C26_GenerateIdempotent ==
    [][/\ rec'.op = "generate_all_signals" => rec'.value = signals'
       /\ rec.op # "__init__" => signals' = signals
       /\ InPassOrder(signals')]_vars

\* generate_all_signals has returned a list with signals of several
\* passes and two signals of one pass at different bars
C26_Witness ==
    /\ rec.op = "generate_all_signals"
    /\ rec.value = signals
    /\ \E i, j \in DOMAIN signals :
          /\ i < j
          /\ PassOf(signals[i].signal) = PassOf(signals[j].signal)
          /\ signals[i].date < signals[j].date
    /\ \E i, j \in DOMAIN signals :
          PassOf(signals[i].signal) < PassOf(signals[j].signal)

---------------------------------------------------------------------------
(* Further properties of the portfolio tracker *)

\* the quantities of the first n transactions of one type in one symbol,
\* added up
RECURSIVE Traded(_, _, _, _)
Traded(ts, sym, type, n) ==
    IF n = 0 THEN 0
    ELSE Traded(ts, sym, type, n - 1)
            + (IF ts[n].symbol = sym /\ ts[n].type = type
                 THEN ts[n].quantity ELSE 0)

\* bought minus sold, for the log ts
NetBought(ts, sym) ==
    Traded(ts, sym, "BUY", Len(ts)) - Traded(ts, sym, "SELL", Len(ts))

\* every symbol is held in the quantity the log accounts for, and is
\* absent from the positions ps exactly when that quantity is 0
Conserved(ps, ts) ==
    \A sym \in Symbols :
        /\ HeldIn(ps, sym) => PositionIn(ps, sym).quantity = NetBought(ts, sym)
        /\ ~HeldIn(ps, sym) <=> NetBought(ts, sym) = 0

NumericQuantities == {-5, 5}
NumericPrices == {0, 150}

AddNumericStep ==
    /\ \E symbol \in InputSymbols, quantity \in NumericQuantities,
          purchase_price \in NumericPrices :
           AddPosition(symbol, quantity, purchase_price)
    /\ UNCHANGED <<svars, ivars, cvars>>

NextNumeric == AddNumericStep \/ RemoveStep \/ SummaryStep

\* the tracker with add_position called on any numbers
SpecNumeric == Init /\ [][NextNumeric]_vars

\* C28: add_position either appends one BUY transaction and updates or
\* creates the position, or fails and leaves positions and log unchanged:
\* no BUY transaction is logged without the matching position update.
C28_AddPositionAtomic ==
    [][IsAddCall =>
         LET sym == Last(transactions').symbol
             quantity == Last(transactions').quantity
         IN  /\ ret'.raised = "none"
             /\ HeldIn(positions', sym)
             /\ PositionIn(positions', sym).quantity =
                   (IF Held(sym) THEN Position(sym).quantity ELSE 0)
                       + quantity]_vars

\* C29: in every summary get_portfolio_summary returns, total_positions
\* is the number of entries of the returned positions list, also when held
\* symbols are missing from current_prices.
C29_CountMatchesList ==
    (ret.op = "get_portfolio_summary" /\ ret.raised = "none")
        => ret.value.total_positions = Len(ret.value.positions)

---------------------------------------------------------------------------
(***************************************************************************)
(* StockService.get_historical_data (src/services/stock_service.py) and    *)
(* IndianStockService.get_indian_stock_historical_data                     *)
(* (src/services/indian_stock_service.py).                                 *)
(*                                                                         *)
(* The provider (yfinance) is not part of the repository: a call of        *)
(* yf.Ticker(symbol).history(period) answers with any frame, empty or      *)
(* not, or raises, and may answer differently each time it is asked.       *)
(* The endpoints of src/main.py call the services one call at a time.      *)
(***************************************************************************)

\* df.empty: no rows or no columns
IsEmptyFrame(df) == df.columns = {} \/ df.rows = <<>>

\* a provider frame of daily bars with these closing prices
History(closes) ==
    [columns |-> {"Close"},
     rows |-> [i \in 1..Len(closes) |-> [Close |-> closes[i]]]]

\* what ticker.history(period=period) can answer
ProviderFrames == {History(<<>>), History(<<100>>), History(<<100, 101>>)}

ProviderAnswers ==
    {[raised |-> TRUE, df |-> EmptyDataFrame]}
        \cup {[raised |-> FALSE, df |-> f] : f \in ProviderFrames}

\* the answer was an exception or an empty frame
Failed(answer) == answer.raised \/ IsEmptyFrame(answer.df)

\* f"{symbol}_{days}"
CacheKey(symbol, days) == symbol \o "_" \o ToString(days)

\* self.cache[cache_key] = df
Cached(cache, cache_key, df) == (cache_key :> df) @@ cache

\* get_historical_data without the cache test: the provider is asked on
\* every call and the entry is replaced
GetHistoricalData_Refetching(cache, symbol, days, answer) ==
    IF symbol = ""
    THEN [cache |-> cache, contacted |-> FALSE, df |-> EmptyDataFrame]
    ELSE IF Failed(answer)
         THEN [cache |-> cache, contacted |-> TRUE, df |-> EmptyDataFrame]
         ELSE [cache |-> Cached(cache, CacheKey(symbol, days), answer.df),
               contacted |-> TRUE, df |-> answer.df]

\* StockService.get_historical_data(symbol, days) on a cache, where answer
\* is what the provider says if it is asked: the cache afterwards, whether
\* the provider was contacted, and the frame returned
GetHistoricalData(cache, symbol, days, answer) ==
    IF symbol = ""
    THEN [cache |-> cache, contacted |-> FALSE, df |-> EmptyDataFrame]
    ELSE LET cache_key == CacheKey(symbol, days)
         IN  IF cache_key \in DOMAIN cache
             THEN [cache |-> cache, contacted |-> FALSE,
                   df |-> cache[cache_key]]
             ELSE IF Failed(answer)
                  THEN [cache |-> cache, contacted |-> TRUE,
                        df |-> EmptyDataFrame]
                  ELSE [cache |-> Cached(cache, cache_key, answer.df),
                        contacted |-> TRUE, df |-> answer.df]

\* IndianStockService.indian_stocks, the entries for the symbols asked
IndianStocks ==
    ("TCS" :> "TCS.NS") @@ ("INFY" :> "INFY.NS")
        @@ ("BHARTI" :> "BHARTIARTL.NS")

\* the symbols before an exchange suffix
SymbolStems == {"", "TCS", "INFY", "BHARTIARTL"}

\* s.endswith(suffix)
EndsWith(s, suffix) == \E stem \in SymbolStems : s = stem \o suffix

\* IndianStockService.get_nse_symbol(symbol)
GetNseSymbol(symbol) ==
    LET s == Upper(symbol)
    IN  IF s \in DOMAIN IndianStocks THEN IndianStocks[s]
        ELSE IF EndsWith(s, ".NS") \/ EndsWith(s, ".BO") THEN s
        ELSE s \o ".NS"

\* IndianStockService.get_indian_stock_historical_data(symbol, days)
GetIndianStockHistoricalData(cache, symbol, days, answer) ==
    LET nse_symbol == GetNseSymbol(symbol)
        cache_key == CacheKey(nse_symbol, days)
    IN  IF cache_key \in DOMAIN cache
        THEN [cache |-> cache, contacted |-> FALSE, df |-> cache[cache_key]]
        ELSE IF Failed(answer)
             THEN [cache |-> cache, contacted |-> TRUE,
                   df |-> EmptyDataFrame]
             ELSE [cache |-> Cached(cache, cache_key, answer.df),
                   contacted |-> TRUE, df |-> answer.df]

\* the symbols and periods the endpoints are asked for
StockSymbols == {"", "AAPL"}
IndianSymbols == {"tcs", "TCS.NS", "BHARTI"}
Days == {5, 365}

\* the call just made, and the first non-empty frame each (symbol, days)
\* was answered with
Fetched(service, symbol, days, answer, out) ==
    /\ fetched' = [service |-> service, symbol |-> symbol, days |-> days,
                   contacted |-> out.contacted,
                   answer |-> IF out.contacted THEN answer ELSE NoAnswer,
                   df |-> out.df]
    /\ served' =
          IF IsEmptyFrame(out.df)
                \/ <<symbol, days>> \in DOMAIN served[service]
          THEN served
          ELSE [served EXCEPT ![service] = (<<symbol, days>> :> out.df) @@ @]

GetHistoricalDataStep ==
    /\ \E symbol \in StockSymbols, days \in Days,
          answer \in ProviderAnswers :
           LET out == GetHistoricalData(stock_cache, symbol, days, answer)
           IN  /\ stock_cache' = out.cache
               /\ Fetched("StockService", symbol, days, answer, out)
    /\ UNCHANGED <<indian_cache, pvars, svars, ivars>>

GetIndianStockHistoricalDataStep ==
    /\ \E symbol \in IndianSymbols, days \in Days,
          answer \in ProviderAnswers :
           LET out == GetIndianStockHistoricalData(indian_cache, symbol,
                                                   days, answer)
           IN  /\ indian_cache' = out.cache
               /\ Fetched("IndianStockService", symbol, days, answer, out)
    /\ UNCHANGED <<stock_cache, pvars, svars, ivars>>

NextFetch == GetHistoricalDataStep \/ GetIndianStockHistoricalDataStep

\* the two services asked for historical data in any order
SpecFetch == Init /\ [][NextFetch]_vars

\* every entry of the cache is kept with its frame
Kept(cache_before, cache_after) ==
    \A k \in DOMAIN cache_before :
        k \in DOMAIN cache_after /\ cache_after[k] = cache_before[k]

\* the same call was made just before and the provider failed it
Retry ==
    /\ fetched.contacted /\ Failed(fetched.answer)
    /\ fetched'.service = fetched.service
    /\ fetched'.symbol = fetched.symbol
    /\ fetched'.days = fetched.days

\* C30: once a call for (symbol, days) has returned non-empty data, every
\* later call for it returns that same data without contacting the
\* provider; an empty or failed provider answer returns an empty frame,
\* is not stored, and the next call for it asks the provider again; no
\* cache entry is ever removed or replaced.
C30_CachedFetch ==
    [][LET key == <<fetched'.symbol, fetched'.days>>
           before == served[fetched'.service]
       IN  /\ key \in DOMAIN before
                 => fetched'.df = before[key] /\ ~fetched'.contacted
           /\ (fetched'.contacted /\ Failed(fetched'.answer))
                 => /\ fetched'.df = EmptyDataFrame
                    /\ stock_cache' = stock_cache
                    /\ indian_cache' = indian_cache
           /\ Retry => fetched'.contacted
           /\ Kept(stock_cache, stock_cache')
           /\ Kept(indian_cache, indian_cache')
           /\ \A k \in DOMAIN stock_cache' :
                  ~IsEmptyFrame(stock_cache'[k])
           /\ \A k \in DOMAIN indian_cache' :
                  ~IsEmptyFrame(indian_cache'[k])]_vars

\* a call was answered from the cache with the frame an earlier call for
\* the same symbol and days had fetched, after the provider had been
\* asked for another key
C30_Witness ==
    /\ fetched.service = "StockService"
    /\ ~fetched.contacted
    /\ ~IsEmptyFrame(fetched.df)
    /\ <<fetched.symbol, fetched.days>> \in DOMAIN served.StockService
    /\ fetched.df = served.StockService[<<fetched.symbol, fetched.days>>]
    /\ DOMAIN stock_cache = {"AAPL_365", "AAPL_5"}
    /\ DOMAIN indian_cache # {}

====
